---- MODULE Spec2Model ----
(***************************************************************************)
(* Model of the scraper orchestration core of feedback-scraper:           *)
(* scraper/orchestrator.py (run_scrapers, _run_single), with the parts of *)
(* scraper/base.py, scraper/registry.py and scraper/utils/output_writer.py *)
(* that the orchestrator calls.                                            *)
(*                                                                         *)
(* Python values are encoded as follows.  Optional[T]: None is <<>> and a  *)
(* value v is <<v>>.  A dict is a function whose DOMAIN is its key set; a  *)
(* dict whose insertion order matters is the sequence of its keys.  The    *)
(* clock (time.time) counts seconds and advances one hour at a time.       *)
(***************************************************************************)
EXTENDS Integers, Sequences, FiniteSets, TLC

\* ---------------------------------------------------------------- bounds
MaxItems == 3      \* longest record sequence one scrape() call yields
MaxHours == 1      \* the clock stops advancing after this many hours
MaxFaults == 1     \* exceptions injected into adapter/IO calls per process
MaxClock == 4      \* the monotonic clock stops advancing after this many ticks
MaxCalls == 3      \* wait() calls recorded per limiter
MaxApiCalls == 3   \* calls of the registry's functions per process
MaxRatingInput == 10  \* ratings given to FeedbackItem range over -10..10
MaxHits == 2       \* hits in one page of the Algolia endpoint's answer
MaxPages == 3      \* the largest nbPages the endpoint reports

\* ------------------------------------------------------- Python encodings
None == <<>>
Some(v) == <<v>>
Get(d, k, default) == IF k \in DOMAIN d THEN d[k] ELSE default
EmptyDict == [k \in {} |-> TRUE]
SeqsUpTo(S, n) == UNION {[1..k -> S] : k \in 0..n}
Range(seq) == {seq[i] : i \in 1..Len(seq)}
Min(a, b) == IF a < b THEN a ELSE b
SecondsPerHour == 3600

\* --------------------------------------------------------------- registry
\* Adapter classes found by discovery, in registration order (a part of the
\* plugin tree: five tier1, three tier2, both tier3, the one optional).
RegistryKeys ==
  << "twitter",
     "app_store", "hacker_news", "reddit", "steam", "youtube",
     "capterra", "g2", "trustpilot",
     "gartner", "microsoft_store" >>
Sources == Range(RegistryKeys)

TIER(sid) ==
  CASE sid \in {"app_store", "hacker_news", "reddit", "steam", "youtube"} -> "tier1"
    [] sid \in {"capterra", "g2", "trustpilot"} -> "tier2"
    [] sid \in {"gartner", "microsoft_store"} -> "tier3"
    [] OTHER -> "optional"

REQUIRES_KEYS(sid) ==
  CASE sid = "reddit" -> {"REDDIT_CLIENT_ID", "REDDIT_CLIENT_SECRET"}
    [] sid = "youtube" -> {"YOUTUBE_API_KEY"}
    [] sid = "twitter" -> {"TWITTER_BEARER_TOKEN"}
    [] OTHER -> {}

\* get_all(): the registry's keys in insertion order
get_all == RegistryKeys

\* ------------------------------------------------------------ orchestrator
TIER_ORDER == << "tier1", "tier2", "tier3", "optional" >>
Tier1Workers == 4
Tier2Workers == 2
Tier3Workers == 1
OptionalWorkers == 1
TIER_WORKERS(tier) ==
  CASE tier = "tier1" -> Tier1Workers
    [] tier = "tier2" -> Tier2Workers
    [] tier = "tier3" -> Tier3Workers
    [] OTHER -> OptionalWorkers

TierRank(tier) == CHOOSE i \in 1..Len(TIER_ORDER) : TIER_ORDER[i] = tier

\* ScrapeResult(source=..., tier=...) with the dataclass defaults
ScrapeResult(sid, tier) ==
  [source |-> sid, tier |-> tier, items_scraped |-> 0,
   skipped |-> FALSE, error |-> None]

\* ScrapeResult.status_icon (lines 52-58); "if self.error" is false for None
\* and for the empty string
IconError == "[red]x[/red]"
IconSkipped == "[yellow]~[/yellow]"
IconDone == "[green]v[/green]"
status_icon(r) ==
  IF r.error # None /\ r.error[1] # "" THEN IconError
  ELSE IF r.skipped THEN IconSkipped
  ELSE IconDone

\* ScrapeResult.status_label (lines 60-66), as the parts of the f-string:
\* the number in front (if any), the fixed text, the message behind it.
\* The messages of ExcMessages are shorter than the 60 characters kept.
status_label(r) ==
  IF r.error # None /\ r.error[1] # ""
  THEN [count |-> None, text |-> "Error: ", detail |-> r.error[1]]
  ELSE IF r.skipped
  THEN [count |-> None, text |-> "Skipped (fresh)", detail |-> ""]
  ELSE [count |-> Some(r.items_scraped), text |-> " items", detail |-> ""]

\* ------------------------------------------------------------------ config
DefaultMaxItems == 200
DefaultFreshnessHours == 24
DefaultRateLimitDelay == 1

\* the freshness window falls back to the default of max_items
from_raw_shared_default(product_name, product_slug, source_params, global, environ) ==
  [product_name |-> product_name,
   product_slug |-> product_slug,
   source_params |-> source_params,
   output_dir |-> Get(global, "output_dir", "output"),
   max_items |-> Get(source_params, "max_items",
                     Get(global, "default_max_items", 200)),
   freshness_hours |-> Get(source_params, "freshness_hours",
                     Get(global, "default_max_items", 24)),
   rate_limit_delay |-> Get(source_params, "rate_limit_delay",
                     Get(global, "default_rate_limit_delay", 1)),
   debug |-> Get(global, "debug", FALSE),
   env |-> environ]

\* ScraperConfig.from_raw
from_raw(product_name, product_slug, source_params, global, environ) ==
  [product_name |-> product_name,
   product_slug |-> product_slug,
   source_params |-> source_params,
   output_dir |-> Get(global, "output_dir", "output"),
   max_items |-> Get(source_params, "max_items",
                     Get(global, "default_max_items", DefaultMaxItems)),
   freshness_hours |-> Get(source_params, "freshness_hours",
                     Get(global, "default_freshness_hours", DefaultFreshnessHours)),
   rate_limit_delay |-> Get(source_params, "rate_limit_delay",
                     Get(global, "default_rate_limit_delay", DefaultRateLimitDelay)),
   debug |-> Get(global, "debug", FALSE),
   env |-> environ]

\* a key that is set to the empty string counts as present
MissingKeysAbsentOnly(sid, environ) ==
  {k \in REQUIRES_KEYS(sid) : k \notin DOMAIN environ}

\* BaseScraper.validate_config: the required keys that are absent or empty
MissingKeys(sid, environ) ==
  {k \in REQUIRES_KEYS(sid) : Get(environ, k, "") = ""}

\* ------------------------------------------------------------ output store
OutPath(output_dir, product_slug, sid) == << output_dir, product_slug, sid >>

\* a file exactly as old as the window counts as fresh
is_fresh_inclusive(f, path, freshness_hours, t) ==
  IF f[path] = None
  THEN FALSE
  ELSE (t - f[path][1].mtime) <= freshness_hours * SecondsPerHour

\* is_fresh(path, freshness_hours) on file system f at clock reading t
is_fresh(f, path, freshness_hours, t) ==
  IF f[path] = None
  THEN FALSE
  ELSE (t - f[path][1].mtime) < freshness_hours * SecondsPerHour

\* the raw field is never removed
SerializeKeepRaw(item, strip) == item

\* item.model_dump(mode="json") followed by data.pop("raw", None)
Serialize(item, strip) ==
  IF strip
  THEN [id |-> item.id, source |-> item.source, body |-> item.body]
  ELSE item

\* the records list write_output builds (lines 34-39)
RECURSIVE SerializeAll(_, _)
SerializeAll(its, strip) ==
  IF its = << >> THEN << >>
  ELSE << Serialize(Head(its), strip) >> \o SerializeAll(Tail(its), strip)

\* the new records are appended to what the file held
write_output_append(f, its, out_dir, slug, sid, strip, t) ==
  LET path == OutPath(out_dir, slug, sid)
      held == IF f[path] = None THEN << >> ELSE f[path][1].content
  IN [f EXCEPT ![path] =
        Some([mtime |-> t, content |-> held \o SerializeAll(its, strip)])]

\* write_output (lines 22-42) called at clock reading t: the file system
\* after dest.write_text(json.dumps(records))
write_output(f, its, out_dir, slug, sid, strip, t) ==
  [f EXCEPT ![OutPath(out_dir, slug, sid)] =
      Some([mtime |-> t, content |-> SerializeAll(its, strip)])]

\* the deduplication loop of _run_single (lines 121-126)
RECURSIVE DedupLoop(_, _, _, _)
DedupLoop(its, i, seen, unique_acc) ==
  IF i > Len(its) THEN unique_acc
  ELSE IF its[i].id \notin seen
       THEN DedupLoop(its, i + 1, seen \cup {its[i].id}, Append(unique_acc, its[i]))
       ELSE DedupLoop(its, i + 1, seen, unique_acc)
\* nothing is dropped
DedupKeepAll(its) == its

Dedup(its) == DedupLoop(its, 1, {}, << >>)

\* ------------------------------------------------------------ environment
\* What an adapter's scrape() may yield.  hacker_news stands for an adapter
\* whose pages repeat a record id; the others yield one kind of record.
RecordsOf(sid) ==
  IF sid = "hacker_news"
  THEN { [id |-> "h1", source |-> sid, body |-> "a", raw |-> None],
         [id |-> "h1", source |-> sid, body |-> "b", raw |-> Some("debug")],
         [id |-> "h2", source |-> sid, body |-> "a", raw |-> None] }
  ELSE { [id |-> "x1", source |-> sid, body |-> "a", raw |-> Some("debug")] }

\* str(exc) of the exceptions adapters and IO calls raise
ExcMessages == {"", "boom"}
\* the message of the ConfigError BaseScraper.validate_config raises
ConfigErrorMessage == "Missing required environment variables"

ProductName == "Notion"
ProductSlug == "notion"

VARIABLES
  env,             \* os.environ
  config_sources,  \* cfg["sources"]: source id -> dict
  global_cfg,      \* cfg["global"]
  invocations,     \* the run_scrapers calls still to come, in order
  faultsLeft,      \* exceptions the environment may still inject
  now,             \* time.time(), in seconds
  fs,              \* output path -> Optional[file(mtime, content)]
  phase,           \* where run_scrapers is: idle, build, run, collect, returned
  args,            \* the arguments of the current run_scrapers call
  tierIdx,         \* index into TIER_ORDER of the tier being processed
  scraper_map,     \* source ids of the scrapers built for the current tier
  pc,              \* per source: the state of its _run_single call
  result,          \* per source: the ScrapeResult its _run_single returned
  items,           \* per source: the list scrape() returned
  unique,          \* per source: the deduplicated list
  results,         \* the report being built
  early,           \* futures already finished when as_completed was called
  late,            \* futures finished after that, in completion order
  built,           \* sources whose scraper was built in this run
  build_failed,    \* sources whose construction raised in this run
  validate_calls,  \* per source: validate_config() invocations in this run
  scrape_calls,    \* per source: scrape() invocations in this run
  write_calls,     \* per source: write_output() invocations in this run
  finish_order,    \* the current tier's sources whose _run_single returned,
                   \* in the order in which they returned
  run_log,         \* when the current run started, the files it found, and
                   \* the sources that completed in the run before it
  \* a SlidingWindowLimiter shared by the threads of Threads
  max_calls,       \* the limiter's max_calls field
  window_seconds,  \* the limiter's window_seconds field
  clock,           \* time.monotonic(), in clock ticks
  timestamps,      \* the limiter's _timestamps deque
  lock,            \* the limiter's _lock: None or Some(holder)
  tpc,             \* per thread: where it is inside wait()
  sleep_until,     \* the instant the sleeping thread's time.sleep() ends
  calls,           \* every timestamp wait() has recorded, in order
  \* the module state of scraper/registry.py
  importable,      \* plugin modules whose import does not raise
  LOADED,          \* _LOADED
  REGISTRY,        \* _REGISTRY: SOURCE_ID -> class
  import_calls,    \* importlib.import_module() invocations so far
  registrations,   \* assignments to _REGISTRY so far
  api_calls,       \* calls of get_all(), get() and list_sources() so far
  \* calls of library functions from outside the orchestrator
  last,            \* the latest call: function, arguments, outcome
  prev,            \* the call before it
  \* utils/http_client.py, used by the workers of a tier
  ua_index,        \* the module's _ua_index
  ua_read,         \* per worker: the value "_ua_index += 1" has loaded
  agent,           \* per worker: the index _next_user_agent picked
  mpc,             \* per worker: where it is inside make_session()
  ua_access,       \* the accesses to _ua_index so far: << worker, kind >>
  \* one HackerNewsScraper.scrape() iteration
  hn_max_items,    \* self.max_items
  hn_pc,           \* where the generator is
  page,            \* scrape()'s page
  yielded,         \* the object ids of the items yielded so far
  hn_log           \* what each request so far met

cfgVars == << env, config_sources, global_cfg >>
histVars == << validate_calls, scrape_calls, write_calls >>
limiterVars == << max_calls, window_seconds, clock, timestamps, lock, tpc,
                  sleep_until, calls >>
registryVars == << importable, LOADED, REGISTRY, import_calls, registrations,
                   api_calls >>
callVars == << last, prev >>
sessionVars == << ua_index, ua_read, agent, mpc, ua_access >>
hnVars == << hn_max_items, hn_pc, page, yielded, hn_log >>
adapterVars == << sessionVars, hnVars >>
libVars == << limiterVars, registryVars, callVars, adapterVars >>
runVars == << invocations, faultsLeft, phase, args, tierIdx, scraper_map, pc,
              result, items, unique, results, early, late, built, build_failed,
              histVars, finish_order, run_log >>
vars == << env, config_sources, global_cfg, invocations, faultsLeft, now, fs,
           phase, args, tierIdx, scraper_map, pc, result, items, unique,
           results, early, late, built, build_failed,
           validate_calls, scrape_calls, write_calls, finish_order, run_log,
           max_calls, window_seconds, clock, timestamps, lock, tpc,
           sleep_until, calls,
           importable, LOADED, REGISTRY, import_calls, registrations,
           api_calls, last, prev,
           ua_index, ua_read, agent, mpc, ua_access,
           hn_max_items, hn_pc, page, yielded, hn_log >>

\* the threads that share the limiter
Threads == {"t1", "t2"}
\* no call made yet
NoCall == [fn |-> "none", in |-> << >>, out |-> << >>]

\* a limiter nobody uses
LimiterIdle ==
  /\ max_calls = 1
  /\ window_seconds = 1
  /\ clock = 0
  /\ timestamps = << >>
  /\ lock = None
  /\ tpc = [t \in Threads |-> "idle"]
  /\ sleep_until = 0
  /\ calls = << >>

\* the adapter class the plugin module of sid defines
ClassOf(sid) ==
  [SOURCE_ID |-> sid, TIER |-> TIER(sid), REQUIRES_KEYS |-> REQUIRES_KEYS(sid)]

\* the registry module as loaded by the orchestrator's get_all() call
RegistryIdle ==
  /\ importable = Sources
  /\ LOADED = TRUE
  /\ REGISTRY = [sid \in Sources |-> ClassOf(sid)]
  /\ import_calls = 0
  /\ registrations = 0
  /\ api_calls = 0

CallsIdle == last = NoCall /\ prev = NoCall

\* the tier1 adapters whose scrape() calls make_session()
Workers == {"hacker_news", "stack_overflow", "steam"}

\* http_client as imported, no session made yet
SessionIdle ==
  /\ ua_index = 0
  /\ ua_read = [w \in Workers |-> 0]
  /\ agent = [w \in Workers |-> None]
  /\ mpc = [w \in Workers |-> "idle"]
  /\ ua_access = {}

\* no HackerNewsScraper.scrape() under way
HackerNewsIdle ==
  /\ hn_max_items = 0
  /\ hn_pc = "idle"
  /\ page = 0
  /\ yielded = << >>
  /\ hn_log = << >>

AdaptersIdle == SessionIdle /\ HackerNewsIdle

Terminal == {"errored", "fresh_skip", "dry_run_skip", "completed"}
Active == {"validating", "scraping", "writing"}

\* ------------------------------------------------- run_scrapers: selection
\* keys of a dict built by inserting seq's elements in order
RECURSIVE KeysInOrder(_, _)
KeysInOrder(seq, acc) ==
  IF seq = << >> THEN acc
  ELSE KeysInOrder(Tail(seq),
                   IF Head(seq) \in Range(acc) THEN acc ELSE Append(acc, Head(seq)))

\* "if source_ids:" -- None and the empty list are both falsy
Truthy(source_ids) == source_ids # None /\ source_ids[1] # << >>

\* an identifier named twice is a candidate twice
CandidatesKeepRepeats(a) ==
  IF Truthy(a.source_ids)
  THEN SelectSeq(a.source_ids[1], LAMBDA sid : sid \in Range(get_all))
  ELSE get_all

\* lines 159-166
Candidates(a) ==
  IF Truthy(a.source_ids)
  THEN KeysInOrder(SelectSeq(a.source_ids[1], LAMBDA sid : sid \in Range(get_all)), << >>)
  ELSE get_all

\* lines 168-180
IsEnabled(a, sid) ==
  /\ Get(Get(config_sources, sid, EmptyDict), "enabled", TRUE)
  /\ ~ (TIER(sid) \in {"tier2", "tier3"} /\ ~ a.tos_aware)
Enabled(a) == SelectSeq(Candidates(a), LAMBDA sid : IsEnabled(a, sid))

\* lines 182-185
by_tier(a, tier) == SelectSeq(Enabled(a), LAMBDA sid : TIER(sid) = tier)

\* _build_scraper: the configuration of the scraper built for sid
ConfigOf(sid) ==
  from_raw(ProductName, ProductSlug, Get(config_sources, sid, EmptyDict),
           global_cfg, env)

output_dir == Get(global_cfg, "output_dir", "output")
PathOf(sid) == OutPath(output_dir, ProductSlug, sid)

CurTier == TIER_ORDER[tierIdx]
max_workers == TIER_WORKERS(CurTier)
Running == {sid \in Range(scraper_map) : pc[sid] \in Active}
Collected == {results[i].source : i \in 1..Len(results)}

\* the loop is left as soon as one result has been appended
TierDoneFirstCompleted ==
  scraper_map = << >> \/ \E sid \in Range(scraper_map) : sid \in Collected

\* the tier's loop (lines 226-233, 246-253) has appended the result of every
\* scraper of the tier; by then every worker of the pool is idle
TierDone == \A sid \in Range(scraper_map) : sid \in Collected

\* the pool runs one task more than max_workers
MayStartOneMore == Cardinality(Running) <= max_workers

\* a worker (or, in a sequential tier, the main thread) may take the next task
MayStart == Cardinality(Running) < max_workers

\* a failed source is queued again
NextQueuedRetry(sid) ==
  \E i \in 1..Len(scraper_map) :
     /\ scraper_map[i] = sid
     /\ pc[sid] \in {"pending", "errored"}
     /\ \A j \in 1..(i - 1) : pc[scraper_map[j]] # "pending"

\* the next queued task: tasks are taken in submission order
NextQueued(sid) ==
  \E i \in 1..Len(scraper_map) :
     /\ scraper_map[i] = sid
     /\ pc[sid] = "pending"
     /\ \A j \in 1..(i - 1) : pc[scraper_map[j]] # "pending"

\* the force flag is not consulted
SkipFreshIgnoringForce(sid) ==
  is_fresh(fs, PathOf(sid), ConfigOf(sid).freshness_hours, now)

\* line 106: the source is skipped as fresh
SkipFresh(sid) ==
  ~ args.force /\ is_fresh(fs, PathOf(sid), ConfigOf(sid).freshness_hours, now)

\* the force flag overrides the dry run
SkipDryRunUnlessForced(sid) == args.dry_run /\ ~ args.force

\* line 112: the source is skipped because the run is a dry run
SkipDryRun(sid) == args.dry_run

\* ---------------------------------------------------------------- actions
\* run_scrapers is called (lines 156-187)
StartRun ==
  /\ phase \in {"idle", "returned"}
  /\ invocations # << >>
  /\ args' = Head(invocations)
  /\ invocations' = Tail(invocations)
  /\ phase' = "build"
  /\ tierIdx' = 1
  /\ scraper_map' = << >>
  /\ results' = << >>
  /\ pc' = [sid \in Sources |-> "pending"]
  /\ result' = [sid \in Sources |-> ScrapeResult(sid, TIER(sid))]
  /\ items' = [sid \in Sources |-> << >>]
  /\ unique' = [sid \in Sources |-> << >>]
  /\ early' = {}
  /\ late' = << >>
  /\ built' = {}
  /\ build_failed' = {}
  /\ validate_calls' = [sid \in Sources |-> 0]
  /\ scrape_calls' = [sid \in Sources |-> 0]
  /\ write_calls' = [sid \in Sources |-> 0]
  /\ finish_order' = << >>
  /\ run_log' = [started_at |-> now,
                 files |-> fs,
                 prev_completed |-> {sid \in Sources : pc[sid] = "completed"}]
  /\ UNCHANGED << libVars, cfgVars, faultsLeft, now, fs >>

\* the for loop moves to the next tier, or run_scrapers returns (line 255)
Advance ==
  IF tierIdx < Len(TIER_ORDER)
  THEN tierIdx' = tierIdx + 1 /\ phase' = "build"
  ELSE tierIdx' = tierIdx /\ phase' = "returned"

\* lines 202-204: a tier without items is skipped
SkipTier ==
  /\ phase = "build"
  /\ by_tier(args, CurTier) = << >>
  /\ Advance
  /\ UNCHANGED << libVars, cfgVars, run_log, finish_order, invocations, faultsLeft, now, fs, args, scraper_map,
                  pc, result, items, unique, results, early, late, built,
                  build_failed, histVars >>

\* lines 208-222: build the tier's scrapers; a construction that raises is
\* logged and the source is left out of scraper_map.  In a pool tier the
\* tasks are then submitted (lines 237-244).
BuildTier ==
  /\ phase = "build"
  /\ by_tier(args, CurTier) # << >>
  /\ \E failed \in SUBSET Range(by_tier(args, CurTier)) :
       /\ Cardinality(failed) <= faultsLeft
       /\ faultsLeft' = faultsLeft - Cardinality(failed)
       /\ scraper_map' = SelectSeq(by_tier(args, CurTier), LAMBDA sid : sid \notin failed)
       /\ built' = built \cup (Range(by_tier(args, CurTier)) \ failed)
       /\ build_failed' = build_failed \cup failed
  /\ phase' = "run"
  /\ early' = {}
  /\ late' = << >>
  /\ finish_order' = << >>
  /\ UNCHANGED << libVars, cfgVars, run_log, invocations, now, fs, args, tierIdx, pc, result,
                  items, unique, results, histVars >>

\* a future that completes while the main thread is inside as_completed is
\* never handed out
FinishUnnoticed(sid, state, r) ==
  /\ pc' = [pc EXCEPT ![sid] = state]
  /\ result' = [result EXCEPT ![sid] = r]
  /\ items' = [items EXCEPT ![sid] = << >>]
  /\ unique' = [unique EXCEPT ![sid] = << >>]
  /\ finish_order' = Append(finish_order, sid)
  /\ IF max_workers = 1
     THEN results' = Append(results, r) /\ late' = late
     ELSE results' = results /\ late' = late

\* _run_single returns r for sid.  In a sequential tier the main thread
\* appends it at once (line 232); in a pool tier the future completes.
Finish(sid, state, r) ==
  /\ pc' = [pc EXCEPT ![sid] = state]
  /\ result' = [result EXCEPT ![sid] = r]
  /\ items' = [items EXCEPT ![sid] = << >>]
  /\ unique' = [unique EXCEPT ![sid] = << >>]
  /\ finish_order' = Append(finish_order, sid)
  /\ IF max_workers = 1
     THEN results' = Append(results, r) /\ late' = late
     ELSE /\ results' = results
          /\ late' = IF phase = "collect" THEN Append(late, sid) ELSE late

\* the except clause leaves result.error as it was
ErroredUnset(sid, msg) == ScrapeResult(sid, TIER(sid))

\* the item count is assigned before write_output is called
ErroredKeepsCount(sid, msg) ==
  [ScrapeResult(sid, TIER(sid)) EXCEPT !.error = Some(msg),
                                       !.items_scraped = Len(unique[sid])]

Errored(sid, msg) ==
  [ScrapeResult(sid, TIER(sid)) EXCEPT !.error = Some(msg)]
Skipped(sid) ==
  [ScrapeResult(sid, TIER(sid)) EXCEPT !.skipped = TRUE]

\* _run_single is entered and calls validate_config() (lines 96-102)
Start(sid) ==
  /\ phase \in {"run", "collect"}
  /\ NextQueued(sid)
  /\ MayStart
  /\ pc' = [pc EXCEPT ![sid] = "validating"]
  /\ validate_calls' = [validate_calls EXCEPT ![sid] = @ + 1]
  /\ UNCHANGED << libVars, cfgVars, run_log, finish_order, invocations, faultsLeft, now, fs, phase, args,
                  tierIdx, scraper_map, result, items, unique, results, early,
                  late, built, build_failed, scrape_calls, write_calls >>

\* validate_config() raises ConfigError (base.py 93-98, orchestrator 132-134)
ValidateConfigError(sid) ==
  /\ pc[sid] = "validating"
  /\ MissingKeys(sid, ConfigOf(sid).env) # {}
  /\ Finish(sid, "errored", Errored(sid, ConfigErrorMessage))
  /\ UNCHANGED << libVars, cfgVars, run_log, invocations, faultsLeft, now, fs, phase, args,
                  tierIdx, scraper_map, early, built, build_failed, histVars >>

\* an adapter's own validate_config() raises something else (lines 135-137)
ValidateRaise(sid) ==
  /\ pc[sid] = "validating"
  /\ MissingKeys(sid, ConfigOf(sid).env) = {}
  /\ faultsLeft > 0
  /\ faultsLeft' = faultsLeft - 1
  /\ \E msg \in ExcMessages : Finish(sid, "errored", Errored(sid, msg))
  /\ UNCHANGED << libVars, cfgVars, run_log, invocations, now, fs, phase, args,
                  tierIdx, scraper_map, early, built, build_failed, histVars >>

\* the freshness check is left out
ValidateReturnNoFreshness(sid) ==
  /\ pc[sid] = "validating"
  /\ MissingKeys(sid, ConfigOf(sid).env) = {}
  /\ IF SkipDryRun(sid)
     THEN /\ Finish(sid, "dry_run_skip", Skipped(sid))
          /\ scrape_calls' = scrape_calls
     ELSE /\ pc' = [pc EXCEPT ![sid] = "scraping"]
          /\ scrape_calls' = [scrape_calls EXCEPT ![sid] = @ + 1]
          /\ UNCHANGED << result, items, unique, results, late, finish_order >>
  /\ UNCHANGED << libVars, cfgVars, run_log, invocations, faultsLeft, now, fs, phase, args,
                  tierIdx, scraper_map, early, built, build_failed,
                  validate_calls, write_calls >>

\* validate_config() returns; freshness check, dry-run check, and the call
\* of scrape() (lines 104-118)
ValidateReturn(sid) ==
  /\ pc[sid] = "validating"
  /\ MissingKeys(sid, ConfigOf(sid).env) = {}
  /\ IF SkipFresh(sid)
     THEN /\ Finish(sid, "fresh_skip", Skipped(sid))
          /\ scrape_calls' = scrape_calls
     ELSE IF SkipDryRun(sid)
     THEN /\ Finish(sid, "dry_run_skip", Skipped(sid))
          /\ scrape_calls' = scrape_calls
     ELSE /\ pc' = [pc EXCEPT ![sid] = "scraping"]
          /\ scrape_calls' = [scrape_calls EXCEPT ![sid] = @ + 1]
          /\ UNCHANGED << result, items, unique, results, late, finish_order >>
  /\ UNCHANGED << libVars, cfgVars, run_log, invocations, faultsLeft, now, fs, phase, args,
                  tierIdx, scraper_map, early, built, build_failed,
                  validate_calls, write_calls >>

\* list(scraper.scrape()) returns; deduplicate; call write_output
\* (lines 118-129)
ScrapeReturn(sid) ==
  /\ pc[sid] = "scraping"
  /\ \E its \in SeqsUpTo(RecordsOf(sid), Min(ConfigOf(sid).max_items, MaxItems)) :
       /\ items' = [items EXCEPT ![sid] = its]
       /\ unique' = [unique EXCEPT ![sid] = Dedup(its)]
  /\ pc' = [pc EXCEPT ![sid] = "writing"]
  /\ write_calls' = [write_calls EXCEPT ![sid] = @ + 1]
  /\ UNCHANGED << libVars, cfgVars, run_log, finish_order, invocations, faultsLeft, now, fs, phase, args,
                  tierIdx, scraper_map, result, results, early, late, built,
                  build_failed, validate_calls, scrape_calls >>

\* the records yielded before the exception are written
ScrapeRaisePartialWrite(sid) ==
  /\ pc[sid] = "scraping"
  /\ faultsLeft > 0
  /\ faultsLeft' = faultsLeft - 1
  /\ \E its \in SeqsUpTo(RecordsOf(sid), Min(ConfigOf(sid).max_items, MaxItems)) :
       fs' = write_output(fs, its, output_dir, ProductSlug, sid, args.strip_raw, now)
  /\ \E msg \in ExcMessages : Finish(sid, "errored", Errored(sid, msg))
  /\ UNCHANGED << libVars, cfgVars, run_log, invocations, now, phase, args,
                  tierIdx, scraper_map, early, built, build_failed, histVars >>

\* scrape() raises part-way (lines 135-137)
ScrapeRaise(sid) ==
  /\ pc[sid] = "scraping"
  /\ faultsLeft > 0
  /\ faultsLeft' = faultsLeft - 1
  /\ \E msg \in ExcMessages : Finish(sid, "errored", Errored(sid, msg))
  /\ UNCHANGED << libVars, cfgVars, run_log, invocations, now, fs, phase, args,
                  tierIdx, scraper_map, early, built, build_failed, histVars >>

\* write_output returns (output_writer.py 30-42); line 130
WriteReturn(sid) ==
  /\ pc[sid] = "writing"
  /\ fs' = write_output(fs, unique[sid], output_dir, ProductSlug, sid,
                        args.strip_raw, now)
  /\ Finish(sid, "completed",
            [ScrapeResult(sid, TIER(sid)) EXCEPT !.items_scraped = Len(unique[sid])])
  /\ UNCHANGED << libVars, cfgVars, run_log, invocations, faultsLeft, now, phase, args,
                  tierIdx, scraper_map, early, built, build_failed, histVars >>

\* write_output raises: before the file is opened (mkdir, serialisation),
\* or inside write_text, which has truncated the file by then
WriteRaise(sid) ==
  /\ pc[sid] = "writing"
  /\ faultsLeft > 0
  /\ faultsLeft' = faultsLeft - 1
  /\ \/ fs' = fs
     \/ fs' = [fs EXCEPT ![PathOf(sid)] = Some([mtime |-> now, content |-> << >>])]
  /\ \E msg \in ExcMessages : Finish(sid, "errored", Errored(sid, msg))
  /\ UNCHANGED << libVars, cfgVars, run_log, invocations, now, phase, args,
                  tierIdx, scraper_map, early, built, build_failed, histVars >>

\* the main thread leaves the submit loop and calls as_completed (line 246):
\* the futures finished by now are handed out first, in no particular order
BeginCollect ==
  /\ phase = "run"
  /\ max_workers # 1
  /\ phase' = "collect"
  /\ early' = {sid \in Range(scraper_map) : pc[sid] \in Terminal}
  /\ late' = << >>
  /\ UNCHANGED << libVars, cfgVars, run_log, finish_order, invocations, faultsLeft, now, fs, args, tierIdx,
                  scraper_map, pc, result, items, unique, results, built,
                  build_failed, histVars >>

\* one iteration of the as_completed loop (lines 246-253)
Collect(sid) ==
  /\ phase = "collect"
  /\ IF early # {}
     THEN sid \in early /\ early' = early \ {sid} /\ late' = late
     ELSE late # << >> /\ sid = Head(late) /\ late' = Tail(late) /\ early' = early
  /\ results' = Append(results, result[sid])
  /\ UNCHANGED << libVars, cfgVars, run_log, finish_order, invocations, faultsLeft, now, fs, phase, args,
                  tierIdx, scraper_map, pc, result, items, unique, built,
                  build_failed, histVars >>

\* the tier's loop is over
EndTier ==
  /\ \/ phase = "run" /\ max_workers = 1
     \/ phase = "collect"
  /\ TierDone
  /\ Advance
  /\ finish_order' = << >>
  /\ UNCHANGED << libVars, cfgVars, run_log, invocations, faultsLeft, now, fs, args, scraper_map,
                  pc, result, items, unique, results, early, late, built,
                  build_failed, histVars >>

\* an hour passes
Tick ==
  /\ now < MaxHours * SecondsPerHour
  /\ now' = now + SecondsPerHour
  /\ UNCHANGED << libVars, cfgVars, run_log, finish_order, invocations, faultsLeft, fs, phase, args, tierIdx,
                  scraper_map, pc, result, items, unique, results, early, late,
                  built, build_failed, histVars >>

\* ------------------------------------------------------------------ inputs
Invocation(ids, force, dry_run, tos_aware, strip_raw) ==
  [source_ids |-> ids, force |-> force, dry_run |-> dry_run,
   tos_aware |-> tos_aware, strip_raw |-> strip_raw]

AllKeysEnv ==
  [k \in {"REDDIT_CLIENT_ID", "REDDIT_CLIENT_SECRET", "YOUTUBE_API_KEY",
          "TWITTER_BEARER_TOKEN"} |-> "secret"]
\* the reddit secret is set but empty, the twitter token is not set
PartialEnv ==
  [k \in {"REDDIT_CLIENT_ID", "REDDIT_CLIENT_SECRET", "YOUTUBE_API_KEY"} |->
     IF k = "REDDIT_CLIENT_SECRET" THEN "" ELSE "secret"]

Disabled == [k \in {"enabled"} |-> FALSE]
\* a config.yaml that leaves one or two sources enabled in each tier
SmallConfigSources ==
  [sid \in {"app_store", "steam", "youtube", "capterra", "trustpilot",
            "microsoft_store", "hacker_news"} |->
     IF sid = "hacker_news"
     THEN [k \in {"max_items", "freshness_hours"} |->
             IF k = "max_items" THEN MaxItems ELSE 1]
     ELSE Disabled]
SmallGlobal == [k \in {"default_max_items"} |-> 1]

BoolPairs == BOOLEAN \X BOOLEAN

\* runs asking for one tier1 source (named twice) and an unknown identifier
HackerNewsRuns ==
  { Invocation(Some(<< "hacker_news", "nonexistent", "hacker_news" >>),
               f, d, FALSE, s) :
      f \in BOOLEAN, d \in BOOLEAN, s \in BOOLEAN }

\* runs over several tiers: everything, an empty list, and two mixed lists
MixedRuns ==
  { Invocation(ids, fd[1], fd[2], t, TRUE) :
      ids \in { None, Some(<< >>),
                Some(<< "g2", "hacker_news", "steam" >>),
                Some(<< "gartner", "twitter", "reddit" >>) },
      fd \in BoolPairs, t \in BOOLEAN }

\* the sources for which an earlier process left an output file at time 0
NoFiles == {}
OldFiles == {"gartner", "twitter"}
\* what such a file holds: two records of an earlier run
OldContent ==
  << [id |-> "old1", source |-> "old", body |-> "a"],
     [id |-> "old2", source |-> "old", body |-> "b"] >>
FilesOf(S) ==
  [p \in {PathOf(sid) : sid \in Sources} |->
     IF p \in {PathOf(sid) : sid \in S}
     THEN Some([mtime |-> 0, content |-> OldContent])
     ELSE None]

Scenario(e, cs, g, invs, f, t, files) ==
  [env |-> e, config_sources |-> cs, global_cfg |-> g, invocations |-> invs,
   faultsLeft |-> f, now |-> t, files |-> files]

\* one source, run once or twice
RepeatScenarios ==
  { Scenario(AllKeysEnv, SmallConfigSources, SmallGlobal, invs, MaxFaults, 0,
             NoFiles) :
      invs \in {<< i >> : i \in HackerNewsRuns}
               \cup {<< i, j >> : i \in HackerNewsRuns, j \in HackerNewsRuns} }

\* several sources in several tiers, run once
MixedScenarios ==
  { Scenario(e, SmallConfigSources, SmallGlobal, << i >>, MaxFaults,
             MaxHours * SecondsPerHour, OldFiles) :
      e \in {AllKeysEnv, PartialEnv}, i \in MixedRuns }

\* every source enabled and asked for, adapters that yield nothing
FullGlobal == [k \in {"default_max_items"} |-> 0]
FullScenarios ==
  { Scenario(AllKeysEnv, EmptyDict, FullGlobal,
             << Invocation(None, TRUE, FALSE, t, TRUE) >>, 0,
             MaxHours * SecondsPerHour, NoFiles) : t \in {TRUE} }

\* two tier1 sources, one of them named twice, and no failures
RepeatedNameScenarios ==
  { Scenario(AllKeysEnv, SmallConfigSources, SmallGlobal,
             << Invocation(Some(<< "reddit", "hacker_news", "reddit" >>),
                           TRUE, FALSE, FALSE, TRUE) >>,
             0, MaxHours * SecondsPerHour, NoFiles) }

InitRun ==
  /\ phase = "idle"
  /\ args = Invocation(None, FALSE, FALSE, FALSE, TRUE)
  /\ tierIdx = 1
  /\ scraper_map = << >>
  /\ results = << >>
  /\ pc = [sid \in Sources |-> "pending"]
  /\ result = [sid \in Sources |-> ScrapeResult(sid, TIER(sid))]
  /\ items = [sid \in Sources |-> << >>]
  /\ unique = [sid \in Sources |-> << >>]
  /\ early = {}
  /\ late = << >>
  /\ built = {}
  /\ build_failed = {}
  /\ validate_calls = [sid \in Sources |-> 0]
  /\ scrape_calls = [sid \in Sources |-> 0]
  /\ write_calls = [sid \in Sources |-> 0]
  /\ finish_order = << >>
  /\ run_log = [started_at |-> now, files |-> fs, prev_completed |-> {}]

InitFrom(S) ==
  /\ \E sc \in S :
       /\ env = sc.env
       /\ config_sources = sc.config_sources
       /\ global_cfg = sc.global_cfg
       /\ invocations = sc.invocations
       /\ faultsLeft = sc.faultsLeft
       /\ now = sc.now
       /\ fs = FilesOf(sc.files)
  /\ InitRun
  /\ LimiterIdle /\ RegistryIdle /\ CallsIdle /\ AdaptersIdle

Init ==
  InitFrom(RepeatScenarios \cup MixedScenarios \cup FullScenarios
             \cup RepeatedNameScenarios)

Next ==
  \/ StartRun
  \/ SkipTier
  \/ BuildTier
  \/ \E sid \in Sources : Start(sid)
  \/ \E sid \in Sources : ValidateConfigError(sid)
  \/ \E sid \in Sources : ValidateRaise(sid)
  \/ \E sid \in Sources : ValidateReturn(sid)
  \/ \E sid \in Sources : ScrapeReturn(sid)
  \/ \E sid \in Sources : ScrapeRaise(sid)
  \/ \E sid \in Sources : WriteReturn(sid)
  \/ \E sid \in Sources : WriteRaise(sid)
  \/ BeginCollect
  \/ \E sid \in Sources : Collect(sid)
  \/ EndTier
  \/ Tick

Spec == Init /\ [][Next]_vars

\* the steps of a run_scrapers call: everything but the caller's next call
\* and the passing of time
Progress ==
  \/ SkipTier
  \/ BuildTier
  \/ \E sid \in Sources : Start(sid)
  \/ \E sid \in Sources : ValidateConfigError(sid)
  \/ \E sid \in Sources : ValidateRaise(sid)
  \/ \E sid \in Sources : ValidateReturn(sid)
  \/ \E sid \in Sources : ScrapeReturn(sid)
  \/ \E sid \in Sources : ScrapeRaise(sid)
  \/ \E sid \in Sources : WriteReturn(sid)
  \/ \E sid \in Sources : WriteRaise(sid)
  \/ BeginCollect
  \/ \E sid \in Sources : Collect(sid)
  \/ EndTier

\* the main thread and the pool's workers keep running, and every adapter
\* call and every write terminates: a run that can take a step takes one
\* runs over all tiers with a credential missing
LiveRuns ==
  { Invocation(ids, FALSE, FALSE, TRUE, TRUE) :
      ids \in { None, Some(<< "g2", "hacker_news", "steam" >>) } }
LiveScenarios ==
  { Scenario(PartialEnv, SmallConfigSources, SmallGlobal, << i >>, MaxFaults,
             MaxHours * SecondsPerHour, OldFiles) : i \in LiveRuns }
\* one source, run twice, with the raw values stripped
LiveRepeatScenarios ==
  { Scenario(AllKeysEnv, SmallConfigSources, SmallGlobal, << i, j >>,
             MaxFaults, 0, NoFiles) :
      i \in {r \in HackerNewsRuns : r.strip_raw},
      j \in {r \in HackerNewsRuns : r.strip_raw} }
LiveInit == InitFrom(LiveRepeatScenarios \cup LiveScenarios)
LiveSpec == LiveInit /\ [][Next]_vars /\ WF_vars(Progress)

\* ------------------------------------------------- the orchestrator at rest
\* a process in which run_scrapers is never called
OrchIdle ==
  /\ env = EmptyDict
  /\ config_sources = EmptyDict
  /\ global_cfg = EmptyDict
  /\ invocations = << >>
  /\ faultsLeft = 0
  /\ now = 0
  /\ fs = FilesOf(NoFiles)
  /\ InitRun

\* ------------------------------------- utils/rate_limiter.py: sliding window
\* the eviction loop of wait() (lines 41-42)
RECURSIVE Evict(_, _, _)
Evict(ts, t, w) ==
  IF ts # << >> /\ Head(ts) < t - w THEN Evict(Tail(ts), t, w) ELSE ts

\* the threads inside wait() or blocked at its "with self._lock"
InWait == {t \in Threads : tpc[t] \in {"waiting", "sleeping", "recording"}}

\* a thread calls wait() (line 37) and reaches "with self._lock"
Call(t) ==
  /\ tpc[t] = "idle"
  /\ Len(calls) + Cardinality(InWait) < MaxCalls
  /\ tpc' = [tpc EXCEPT ![t] = "waiting"]
  /\ UNCHANGED << adapterVars, cfgVars, runVars, now, fs, registryVars, callVars,
                  max_calls, window_seconds, clock, timestamps, lock,
                  sleep_until, calls >>

\* the lock is never taken
WaitEnterUnlocked(t) ==
  /\ tpc[t] = "waiting"
  /\ lock' = lock
  /\ LET kept == Evict(timestamps, clock, window_seconds) IN
       /\ timestamps' = kept
       /\ IF Len(kept) >= max_calls /\ kept = << >>
          THEN /\ tpc' = [tpc EXCEPT ![t] = "raised"]
               /\ sleep_until' = sleep_until
          ELSE IF Len(kept) >= max_calls /\ (kept[1] + window_seconds) - clock > 0
          THEN /\ tpc' = [tpc EXCEPT ![t] = "sleeping"]
               /\ sleep_until' = kept[1] + window_seconds
          ELSE /\ tpc' = [tpc EXCEPT ![t] = "recording"]
               /\ sleep_until' = sleep_until
  /\ UNCHANGED << adapterVars, cfgVars, runVars, now, fs, registryVars, callVars,
                  max_calls, window_seconds, clock, calls >>

\* wait(), lines 38-49: the thread takes the lock, reads the clock, evicts,
\* and goes to sleep when the deque still holds max_calls entries and the
\* oldest one has not expired.  self._timestamps[0] on an empty deque
\* (line 46) raises IndexError, and the with block releases the lock.
WaitEnter(t) ==
  /\ tpc[t] = "waiting"
  /\ lock = None
  /\ LET kept == Evict(timestamps, clock, window_seconds) IN
       /\ timestamps' = kept
       /\ IF Len(kept) >= max_calls /\ kept = << >>
          THEN /\ tpc' = [tpc EXCEPT ![t] = "raised"]
               /\ lock' = None
               /\ sleep_until' = sleep_until
          ELSE IF Len(kept) >= max_calls /\ (kept[1] + window_seconds) - clock > 0
          THEN /\ tpc' = [tpc EXCEPT ![t] = "sleeping"]
               /\ lock' = Some(t)
               /\ sleep_until' = kept[1] + window_seconds
          ELSE /\ tpc' = [tpc EXCEPT ![t] = "recording"]
               /\ lock' = Some(t)
               /\ sleep_until' = sleep_until
  /\ UNCHANGED << adapterVars, cfgVars, runVars, now, fs, registryVars, callVars,
                  max_calls, window_seconds, clock, calls >>

\* time.sleep(sleep_time) returns (line 49): at least sleep_time has passed
WakeUp(t) ==
  /\ tpc[t] = "sleeping"
  /\ clock >= sleep_until
  /\ tpc' = [tpc EXCEPT ![t] = "recording"]
  /\ UNCHANGED << adapterVars, cfgVars, runVars, now, fs, registryVars, callVars,
                  max_calls, window_seconds, clock, timestamps, lock,
                  sleep_until, calls >>

\* line 51: the call is recorded with a second clock reading; the lock is
\* released and wait() returns
Record(t) ==
  /\ tpc[t] = "recording"
  /\ timestamps' = Append(timestamps, clock)
  /\ calls' = Append(calls, clock)
  /\ lock' = None
  /\ tpc' = [tpc EXCEPT ![t] = "idle"]
  /\ UNCHANGED << adapterVars, cfgVars, runVars, now, fs, registryVars, callVars,
                  max_calls, window_seconds, clock, sleep_until >>

\* the monotonic clock advances by one tick; it goes on past MaxClock only
\* as far as a sleeping thread needs
ClockTick ==
  /\ \/ clock < MaxClock
     \/ \E t \in Threads : tpc[t] = "sleeping" /\ clock < sleep_until
  /\ clock' = clock + 1
  /\ UNCHANGED << adapterVars, cfgVars, runVars, now, fs, registryVars, callVars,
                  max_calls, window_seconds, timestamps, lock, tpc,
                  sleep_until, calls >>

\* SlidingWindowLimiter(max_calls=n, window_seconds=w), not yet used
LimiterInit ==
  /\ max_calls \in {0, 1, 2}
  /\ window_seconds \in {1, 2}
  /\ clock = 0
  /\ timestamps = << >>
  /\ lock = None
  /\ tpc = [t \in Threads |-> "idle"]
  /\ sleep_until = 0
  /\ calls = << >>
  /\ OrchIdle /\ RegistryIdle /\ CallsIdle /\ AdaptersIdle

LimiterNext ==
  \/ \E t \in Threads : Call(t)
  \/ \E t \in Threads : WaitEnter(t)
  \/ \E t \in Threads : WakeUp(t)
  \/ \E t \in Threads : Record(t)
  \/ ClockTick

LimiterSpec == LimiterInit /\ [][LimiterNext]_vars

\* the scheduler lets every thread run and time passes: a thread that can
\* take the free lock, wake up or return does so, and the clock advances
LimiterLiveSpec ==
  /\ LimiterSpec
  /\ WF_vars(ClockTick)
  /\ \A t \in Threads :
        WF_vars(WaitEnter(t)) /\ WF_vars(WakeUp(t)) /\ WF_vars(Record(t))

\* ------------------------------------------------------ scraper/registry.py
\* BaseScraper.__subclasses__() once the modules of mods are imported
Subclasses(mods) ==
  LET names == SelectSeq(RegistryKeys, LAMBDA m : m \in mods)
  IN [i \in 1..Len(names) |-> ClassOf(names[i])]

\* _collect (lines 42-46): register every subclass that has a SOURCE_ID
RECURSIVE collect(_, _)
collect(subs, reg) ==
  IF subs = << >> THEN reg
  ELSE LET sub == Head(subs)
           reg1 == IF sub.SOURCE_ID # ""
                   THEN [k \in DOMAIN reg \cup {sub.SOURCE_ID} |->
                           IF k = sub.SOURCE_ID THEN sub ELSE reg[k]]
                   ELSE reg
       IN collect(Tail(subs), reg1)

\* the module state as a record
RegistryState ==
  [LOADED |-> LOADED, REGISTRY |-> REGISTRY, import_calls |-> import_calls,
   registrations |-> registrations]

\* the _LOADED flag is not consulted
load_all_plugins_uncached(st, mods) ==
  [LOADED |-> TRUE,
   REGISTRY |-> collect(Subclasses(mods), st.REGISTRY),
   import_calls |-> st.import_calls + Len(RegistryKeys),
   registrations |-> st.registrations + Len(Subclasses(mods))]

\* _load_all_plugins (lines 23-49): every module of the tree is imported, an
\* import that raises is logged, and the subclasses are registered
load_all_plugins(st, mods) ==
  IF st.LOADED THEN st
  ELSE [LOADED |-> TRUE,
        REGISTRY |-> collect(Subclasses(mods), st.REGISTRY),
        import_calls |-> st.import_calls + Len(RegistryKeys),
        registrations |-> st.registrations + Len(Subclasses(mods))]

\* list_sources (lines 64-77): the metadata sorted by (tier, source_id);
\* RegistryKeys is in that order
list_sources(reg) ==
  LET ids == SelectSeq(RegistryKeys, LAMBDA k : k \in DOMAIN reg)
  IN [i \in 1..Len(ids) |->
        [source_id |-> reg[ids[i]].SOURCE_ID, tier |-> reg[ids[i]].TIER,
         requires_keys |-> reg[ids[i]].REQUIRES_KEYS]]

\* a call of one of the registry's functions: discovery, then the answer
RegistryCall(fn, arg, st, out) ==
  /\ api_calls' = api_calls + 1
  /\ LOADED' = st.LOADED
  /\ REGISTRY' = st.REGISTRY
  /\ import_calls' = st.import_calls
  /\ registrations' = st.registrations
  /\ last' = [fn |-> fn, in |-> arg, out |-> out]
  /\ prev' = last
  /\ UNCHANGED << adapterVars, cfgVars, runVars, now, fs, limiterVars, importable >>

\* get_all (lines 52-55)
CallGetAll ==
  /\ api_calls < MaxApiCalls
  /\ LET st == load_all_plugins(RegistryState, importable) IN
       RegistryCall("get_all", << >>, st, st.REGISTRY)

\* get (lines 58-61)
CallGet(source_id) ==
  /\ api_calls < MaxApiCalls
  /\ LET st == load_all_plugins(RegistryState, importable) IN
       RegistryCall("get", << source_id >>, st,
                    IF source_id \in DOMAIN st.REGISTRY
                      THEN Some(st.REGISTRY[source_id]) ELSE None)

\* list_sources (lines 64-77)
CallListSources ==
  /\ api_calls < MaxApiCalls
  /\ LET st == load_all_plugins(RegistryState, importable) IN
       RegistryCall("list_sources", << >>, st, list_sources(st.REGISTRY))

\* a fresh process; some plugin modules may fail to import
RegistryInit ==
  /\ importable \in {Sources \ broken : broken \in SUBSET {"reddit", "g2", "twitter"}}
  /\ LOADED = FALSE
  /\ REGISTRY = EmptyDict
  /\ import_calls = 0
  /\ registrations = 0
  /\ api_calls = 0
  /\ OrchIdle /\ LimiterIdle /\ CallsIdle /\ AdaptersIdle

RegistryNext ==
  \/ CallGetAll
  \/ \E source_id \in Sources \cup {"nonexistent"} : CallGet(source_id)
  \/ CallListSources

RegistrySpec == RegistryInit /\ [][RegistryNext]_vars

\* -------------------------------------------------------- scraper/schema.py
\* Python strings are sequences of one-character strings
Max(a, b) == IF a > b THEN a ELSE b
\* s[:n]
Prefix(s, n) == SubSeq(s, 1, Min(n, Len(s)))
\* the "::" of the f-strings
Sep == << ":", ":" >>
AuthorBodyChars == 100
BodyChars == 200
RatingMin == 0
RatingMax == 5

\* "if url:", "elif author:" -- None and the empty string are both falsy
TruthyStr(o) == o # None /\ o[1] # << >>

\* hashing.make_id: the SHA-256 digest, taken as injective on its key
make_id(key) == << "sha256", key >>

\* the author is not used
make_feedback_id_no_author(source, url, author, body) ==
  IF TruthyStr(url)
  THEN make_id(source \o Sep \o url[1])
  ELSE make_id(source \o Sep \o Prefix(body, BodyChars))

\* make_feedback_id (lines 48-56)
make_feedback_id(source, url, author, body) ==
  IF TruthyStr(url)
  THEN make_id(source \o Sep \o url[1])
  ELSE IF TruthyStr(author)
  THEN make_id(source \o Sep \o author[1] \o Sep \o Prefix(body, AuthorBodyChars))
  ELSE make_id(source \o Sep \o Prefix(body, BodyChars))

\* only the upper end is clamped
clamp_rating_upper_only(v) ==
  IF v = None THEN v ELSE Some(Min(RatingMax, v[1]))

\* FeedbackItem.clamp_rating (lines 31-36)
clamp_rating(v) ==
  IF v = None THEN v ELSE Some(Max(RatingMin, Min(RatingMax, v[1])))

\* arguments given to make_feedback_id
SourceNames == { << "h", "n" >>, << "r" >> }
Urls == { None, Some(<< >>), Some(<< "u" >>), Some(<< "v" >>) }
Authors == { None, Some(<< >>), Some(<< "a" >>), Some(<< "b" >>) }
\* "a::a::a::...a", three characters longer than the author-branch prefix
PeriodicBody ==
  [i \in 1..(AuthorBodyChars + 3) |-> IF i % 3 = 1 THEN "a" ELSE ":"]
\* one character longer than the body-branch prefix
LongBody == [i \in 1..(BodyChars + 1) |-> "x"]
Bodies == { << "b" >>, PeriodicBody, LongBody }
Ratings == {None} \cup {Some(v) : v \in (0 - MaxRatingInput)..MaxRatingInput}

\* a scraper calls make_feedback_id(source, url, author, body)
CallMakeFeedbackId ==
  /\ \E source \in SourceNames, url \in Urls, author \in Authors, body \in Bodies :
       last' = [fn |-> "make_feedback_id",
                in |-> << source, url, author, body >>,
                out |-> make_feedback_id(source, url, author, body)]
  /\ prev' = last
  /\ UNCHANGED << adapterVars, cfgVars, runVars, now, fs, limiterVars, registryVars >>

\* a scraper constructs FeedbackItem(..., rating=rating); out is the stored
\* rating
CallFeedbackItem ==
  /\ \E rating \in Ratings :
       last' = [fn |-> "FeedbackItem", in |-> << rating >>,
                out |-> clamp_rating(rating)]
  /\ prev' = last
  /\ UNCHANGED << adapterVars, cfgVars, runVars, now, fs, limiterVars, registryVars >>

SchemaInit == OrchIdle /\ LimiterIdle /\ RegistryIdle /\ CallsIdle /\ AdaptersIdle

SchemaNext == CallMakeFeedbackId \/ CallFeedbackItem

SchemaSpec == SchemaInit /\ [][SchemaNext]_vars

\* ---------------------------------------------- scraper/base.py, called directly
\* adapter-specific parameters: each field absent or set
SourceParamsChoices ==
  { [k \in ks |-> CASE k = "max_items" -> 5
                    [] k = "freshness_hours" -> 2
                    [] OTHER -> 3] :
      ks \in SUBSET {"max_items", "freshness_hours", "rate_limit_delay"} }
\* the global section: each default absent or set
GlobalChoices ==
  { [k \in ks |-> CASE k = "default_max_items" -> 7
                    [] k = "default_freshness_hours" -> 8
                    [] OTHER -> 9] :
      ks \in SUBSET {"default_max_items", "default_freshness_hours",
                     "default_rate_limit_delay"} }
\* environment snapshots: each reddit credential absent, empty or set
EnvChoices ==
  UNION { [ks -> {"", "secret"}] :
            ks \in SUBSET {"REDDIT_CLIENT_ID", "REDDIT_CLIENT_SECRET"} }

\* BaseScraper.validate_config (lines 91-98) on a scraper of class sid
\* holding config: the outcome, and the config the scraper holds afterwards
validate_config(sid, config) ==
  [raised |-> IF MissingKeys(sid, config.env) # {} THEN "ConfigError" ELSE "none",
   config |-> config]

\* ScraperConfig.from_raw(name, slug, source_params, global_cfg, env)
CallFromRaw ==
  /\ \E source_params \in SourceParamsChoices, global \in GlobalChoices :
       last' = [fn |-> "from_raw", in |-> << source_params, global >>,
                out |-> from_raw(ProductName, ProductSlug, source_params,
                                 global, AllKeysEnv)]
  /\ prev' = last
  /\ UNCHANGED << adapterVars, cfgVars, runVars, now, fs, limiterVars, registryVars >>

\* cls(config).validate_config() for a configuration whose snapshot is e
CallValidateConfig ==
  /\ \E sid \in {"reddit", "hacker_news"}, e \in EnvChoices :
       LET config == from_raw(ProductName, ProductSlug, EmptyDict, EmptyDict, e)
       IN last' = [fn |-> "validate_config", in |-> << sid, config >>,
                   out |-> validate_config(sid, config)]
  /\ prev' = last
  /\ UNCHANGED << adapterVars, cfgVars, runVars, now, fs, limiterVars, registryVars >>

ConfigInit == OrchIdle /\ LimiterIdle /\ RegistryIdle /\ CallsIdle /\ AdaptersIdle

ConfigNext == CallFromRaw \/ CallValidateConfig

ConfigSpec == ConfigInit /\ [][ConfigNext]_vars

\* ------------------------------------ utils/output_writer.py, called directly
\* the clock reading of the process: 25 hours after the oldest file was written
LaterNow == 25 * SecondsPerHour
\* output files of earlier processes: one 25 hours old, one 24 hours old to
\* the second, one a second younger
AgedFiles ==
  [p \in {PathOf(sid) : sid \in Sources} |->
     CASE p = PathOf("reddit") -> Some([mtime |-> 0, content |-> OldContent])
       [] p = PathOf("steam") -> Some([mtime |-> SecondsPerHour, content |-> OldContent])
       [] p = PathOf("youtube") -> Some([mtime |-> SecondsPerHour + 1, content |-> OldContent])
       [] OTHER -> None]
\* the two records a caller hands to write_output: one without a debug
\* payload, one with
WrittenRecords ==
  { [id |-> "h1", source |-> "hacker_news", body |-> "a", raw |-> None],
    [id |-> "h2", source |-> "hacker_news", body |-> "b", raw |-> Some("debug")] }

\* is_fresh(path, freshness_hours)
CallIsFresh ==
  /\ \E sid \in {"app_store", "hacker_news", "reddit", "steam", "youtube"},
        freshness_hours \in {0, 1, 24} :
       last' = [fn |-> "is_fresh", in |-> << PathOf(sid), freshness_hours >>,
                out |-> is_fresh(fs, PathOf(sid), freshness_hours, now)]
  /\ prev' = last
  /\ UNCHANGED << adapterVars, cfgVars, runVars, now, fs, limiterVars, registryVars >>

\* write_output(items, output_dir, product_slug, source_id, strip_raw); out
\* is the returned path and the records read back from it
CallWriteOutput ==
  /\ \E its \in SeqsUpTo(WrittenRecords, 2), strip_raw \in BOOLEAN :
       LET written == write_output(fs, its, output_dir, ProductSlug,
                                   "hacker_news", strip_raw, now)
       IN /\ fs' = written
          /\ last' = [fn |-> "write_output",
                      in |-> << its, "hacker_news", strip_raw >>,
                      out |-> [path |-> PathOf("hacker_news"),
                               data |-> written[PathOf("hacker_news")][1].content]]
  /\ prev' = last
  /\ UNCHANGED << adapterVars, cfgVars, runVars, now, limiterVars, registryVars >>

OutputInit ==
  /\ env = EmptyDict
  /\ config_sources = EmptyDict
  /\ global_cfg = EmptyDict
  /\ invocations = << >>
  /\ faultsLeft = 0
  /\ now = LaterNow
  /\ fs = AgedFiles
  /\ InitRun
  /\ LimiterIdle /\ RegistryIdle /\ CallsIdle /\ AdaptersIdle

OutputNext == CallIsFresh \/ CallWriteOutput

OutputSpec == OutputInit /\ [][OutputNext]_vars

\* ------------------------------------------------ utils/http_client.py
\* len(_USER_AGENTS)
NumUserAgents == 4

\* a worker's scrape() calls make_session() (e.g. hacker_news.py line 27),
\* which reaches _next_user_agent() at line 51
MakeSession(w) ==
  /\ mpc[w] = "idle"
  /\ mpc' = [mpc EXCEPT ![w] = "pick"]
  /\ UNCHANGED << cfgVars, runVars, now, fs, limiterVars, registryVars,
                  callVars, hnVars, ua_index, ua_read, agent, ua_access >>

\* line 24: agent = _USER_AGENTS[_ua_index % len(_USER_AGENTS)]
PickAgent(w) ==
  /\ mpc[w] = "pick"
  /\ agent' = [agent EXCEPT ![w] = Some(ua_index % NumUserAgents)]
  /\ ua_access' = ua_access \cup {<< w, "read" >>}
  /\ mpc' = [mpc EXCEPT ![w] = "load"]
  /\ UNCHANGED << cfgVars, runVars, now, fs, limiterVars, registryVars,
                  callVars, hnVars, ua_index, ua_read >>

\* line 25, "_ua_index += 1": the global is loaded ...
LoadIndex(w) ==
  /\ mpc[w] = "load"
  /\ ua_read' = [ua_read EXCEPT ![w] = ua_index]
  /\ ua_access' = ua_access \cup {<< w, "read" >>}
  /\ mpc' = [mpc EXCEPT ![w] = "store"]
  /\ UNCHANGED << cfgVars, runVars, now, fs, limiterVars, registryVars,
                  callVars, hnVars, ua_index, agent >>

\* ... and the sum is stored; no lock is held in between
StoreIndex(w) ==
  /\ mpc[w] = "store"
  /\ ua_index' = ua_read[w] + 1
  /\ ua_access' = ua_access \cup {<< w, "write" >>}
  /\ mpc' = [mpc EXCEPT ![w] = "done"]
  /\ UNCHANGED << cfgVars, runVars, now, fs, limiterVars, registryVars,
                  callVars, hnVars, ua_read, agent >>

\* a tier1 pool whose workers have not yet made their sessions; the process
\* may have made sessions before
SessionInit ==
  /\ ua_index \in 0..(NumUserAgents - 1)
  /\ ua_read = [w \in Workers |-> 0]
  /\ agent = [w \in Workers |-> None]
  /\ mpc = [w \in Workers |-> "idle"]
  /\ ua_access = {}
  /\ HackerNewsIdle
  /\ OrchIdle /\ LimiterIdle /\ RegistryIdle /\ CallsIdle

SessionNext ==
  \/ \E w \in Workers : MakeSession(w)
  \/ \E w \in Workers : PickAgent(w)
  \/ \E w \in Workers : LoadIndex(w)
  \/ \E w \in Workers : StoreIndex(w)

SessionSpec == SessionInit /\ [][SessionNext]_vars

\* ------------------------------------------ plugins/tier1/hacker_news.py
\* What the endpoint may answer to one request.  kind: the transport
\* fails, the status is an error status, the body is not JSON, the body is
\* JSON but not an object, or it is an object.  For an object, hits is
\* absent, a number, or a list; nbPages is absent, a number, or a string.
HitKinds == {"ok", "no_body", "malformed"}
HitLists == SeqsUpTo(HitKinds, MaxHits)
NoObject(kind) ==
  [kind |-> kind, hits_type |-> "absent", hits |-> << >>,
   nb_type |-> "absent", nbPages |-> 0]
Objects ==
  { [kind |-> "object", hits_type |-> ht, hits |-> h, nb_type |-> nt,
     nbPages |-> n] :
      ht \in {"list"}, h \in HitLists, nt \in {"number"}, n \in 1..MaxPages }
  \cup
  { [kind |-> "object", hits_type |-> ht, hits |-> << >>, nb_type |-> "number",
     nbPages |-> MaxPages] : ht \in {"absent", "number"} }
  \cup
  { [kind |-> "object", hits_type |-> "list", hits |-> h, nb_type |-> nt,
     nbPages |-> 0] : h \in HitLists, nt \in {"absent", "string"} }
Responses ==
  {NoObject(k) : k \in {"transport", "status", "not_json", "not_object"}}
  \cup Objects

\* every hit is yielded, whatever max_items is
yield_hits_all(hits, already, max, pg) ==
  already \o [i \in 1..Len(hits) |-> << pg, i >>]

\* the loop over the hits of one page (lines 55-95): a hit is skipped when
\* it has no body (line 66) or when building the item raises (line 94); the
\* items yielded are named by page and position
RECURSIVE TakeHits(_, _, _, _, _)
TakeHits(hits, i, acc, max, pg) ==
  IF i > Len(hits) \/ Len(acc) >= max THEN acc
  ELSE TakeHits(hits, i + 1,
                IF hits[i] = "ok" THEN Append(acc, << pg, i >>) ELSE acc,
                max, pg)
yield_hits(hits, already, max, pg) == TakeHits(hits, 1, already, max, pg)

\* data.get("nbPages", 1), line 98
NbPages(r) == IF r.nb_type = "absent" THEN 1 ELSE r.nbPages

\* one turn of the while loop (lines 33-101) with the endpoint answering r:
\* what the request met, the items yielded by the end of the turn, and
\* where the generator is then
LoopTurn(r) ==
  IF r.kind \in {"transport", "status", "not_json"}
  THEN [outcome |-> "failed", yielded |-> yielded, pc |-> "done"]
  ELSE IF r.kind = "not_object"
  THEN \* line 51: data.get on a list, a string, a number or None
       [outcome |-> "raised", yielded |-> yielded, pc |-> "raised"]
  ELSE IF r.hits_type = "absent" \/ (r.hits_type = "list" /\ r.hits = << >>)
  THEN [outcome |-> "empty", yielded |-> yielded, pc |-> "done"]
  ELSE IF r.hits_type = "number"
  THEN \* line 55: "for hit in hits" over a number
       [outcome |-> "raised", yielded |-> yielded, pc |-> "raised"]
  ELSE LET got == yield_hits(r.hits, yielded, hn_max_items, page) IN
       IF r.nb_type = "string"
       THEN \* line 100: page >= nb_pages compares an int with a str
            [outcome |-> "raised", yielded |-> got, pc |-> "raised"]
       ELSE [outcome |-> "ok", yielded |-> got,
             pc |-> IF page + 1 >= NbPages(r) THEN "done" ELSE "loop"]

\* list(scraper.scrape()) starts the generator (lines 25-31)
HNStart ==
  /\ hn_pc = "idle"
  /\ hn_pc' = "loop"
  /\ page' = 0
  /\ yielded' = << >>
  /\ hn_log' = << >>
  /\ UNCHANGED << cfgVars, runVars, now, fs, limiterVars, registryVars,
                  callVars, sessionVars, hn_max_items >>

\* line 33: the while condition is false; the generator ends (line 103)
HNExhausted ==
  /\ hn_pc = "loop"
  /\ ~ (Len(yielded) < hn_max_items)
  /\ hn_pc' = "done"
  /\ UNCHANGED << cfgVars, runVars, now, fs, limiterVars, registryVars,
                  callVars, sessionVars, hn_max_items, page, yielded, hn_log >>

\* one turn of the loop: a request is issued and answered with r
Turn(r) ==
  /\ hn_pc = "loop"
  /\ Len(yielded) < hn_max_items
  /\ LET t == LoopTurn(r) IN
       /\ hn_pc' = t.pc
       /\ yielded' = t.yielded
       /\ page' = IF t.outcome = "ok" THEN page + 1 ELSE page
       /\ hn_log' = Append(hn_log,
                           [page |-> page, outcome |-> t.outcome,
                            nb_pages |-> NbPages(r),
                            yielded_after |-> Len(t.yielded)])
  /\ UNCHANGED << cfgVars, runVars, now, fs, limiterVars, registryVars,
                  callVars, sessionVars, hn_max_items >>

\* lines 35-49: the request fails and is logged
HNRequestFails ==
  \E r \in Responses : LoopTurn(r).outcome = "failed" /\ Turn(r)

\* lines 51-53: a page without hits
HNEmptyPage ==
  \E r \in Responses : LoopTurn(r).outcome = "empty" /\ Turn(r)

\* lines 55-101: a page of hits
HNPage ==
  \E r \in Responses : LoopTurn(r).outcome = "ok" /\ Turn(r)

\* an exception leaves the generator (lines 51, 55, 100 are in no try block)
HNRaises ==
  \E r \in Responses : LoopTurn(r).outcome = "raised" /\ Turn(r)

\* a HackerNewsScraper whose scrape() has not been called
HackerNewsInit ==
  /\ hn_max_items \in 0..MaxItems
  /\ hn_pc = "idle"
  /\ page = 0
  /\ yielded = << >>
  /\ hn_log = << >>
  /\ SessionIdle
  /\ OrchIdle /\ LimiterIdle /\ RegistryIdle /\ CallsIdle

HackerNewsNext ==
  \/ HNStart
  \/ HNExhausted
  \/ HNRequestFails
  \/ HNEmptyPage
  \/ HNPage
  \/ HNRaises

HackerNewsSpec == HackerNewsInit /\ [][HackerNewsNext]_vars

\* ------------------------------------------------------------------ claims
RankOf(sid) == TierRank(TIER(sid))
ActiveIn(tier) == {sid \in Sources : TIER(sid) = tier /\ pc[sid] \in Active}

\* C1: tiers are sequential phases in the order tier1, tier2, tier3,
\* optional: at the step in which a source starts its pipeline (its
\* validate_config() is called), every source of an earlier tier is either
\* in a terminal state or was never started, and no source of a later tier
\* has been started.
C1_TiersSequential ==
  [][ \A t \in Sources :
        (pc[t] = "pending" /\ pc'[t] = "validating") =>
           \A s \in Sources :
              /\ RankOf(s) < RankOf(t) =>
                   /\ pc[s] \in Terminal \cup {"pending"}
                   /\ s \in built => pc[s] \in Terminal
              /\ RankOf(s) > RankOf(t) => pc[s] = "pending" ]_vars

\* C1 witness: a tier3 source is running after a tier1 and a tier2 source
\* have finished, one of them with an error.
C1_Witness ==
  \E s, u, t \in Sources :
     /\ TIER(s) = "tier1" /\ TIER(u) = "tier2" /\ TIER(t) = "tier3"
     /\ pc[s] = "errored" /\ pc[u] \in Terminal /\ pc[t] \in Active

\* C2: the number of sources of one tier whose _run_single is executing
\* never exceeds 4 for tier1, 2 for tier2, 1 for tier3 and 1 for optional.
C2_WorkerCeiling ==
  /\ Cardinality(ActiveIn("tier1")) <= 4
  /\ Cardinality(ActiveIn("tier2")) <= 2
  /\ Cardinality(ActiveIn("tier3")) <= 1
  /\ Cardinality(ActiveIn("optional")) <= 1

\* C2 witness: four tier1 pipelines are executing and a fifth tier1 scraper,
\* built and submitted, is waiting for a worker.
C2_Witness ==
  /\ Cardinality(ActiveIn("tier1")) = 4
  /\ \E sid \in Range(scraper_map) : TIER(sid) = "tier1" /\ pc[sid] = "pending"

CountFor(sid) == Cardinality({i \in 1..Len(results) : results[i].source = sid})
ResultOf(sid) == results[CHOOSE i \in 1..Len(results) : results[i].source = sid]
InRun == phase \in {"build", "run", "collect"}

C3_Returned ==
  phase = "returned" =>
    \A s \in Sources :
       pc[s] = "errored" =>
         /\ CountFor(s) = 1
         /\ ResultOf(s).error # None
         /\ \A u \in built \ {s} :
               RankOf(u) >= RankOf(s) =>
                 /\ validate_calls[u] = 1
                 /\ pc[u] \in Terminal
                 /\ CountFor(u) = 1
                 /\ ResultOf(u) = result[u]

\* C3: error isolation.  The step in which a source's validate_config(),
\* scrape() or output write raises ends that source's pipeline with a result
\* whose error is set, and changes neither the position of run_scrapers nor
\* any other source's pipeline.  When run_scrapers has returned, every such
\* source has exactly one result in the report, with its error set, and
\* every other source of the same or a later tier whose scraper was built
\* has run its own pipeline once and has exactly one result of its own.
C3_ErrorIsolation ==
  /\ [](C3_Returned)
  /\ [][ \A s \in Sources :
           (pc[s] \in Active /\ pc'[s] = "errored") =>
              /\ result'[s].error # None
              /\ phase' = phase /\ tierIdx' = tierIdx
              /\ \A u \in Sources \ {s} : pc'[u] = pc[u] ]_vars

\* C3 witness: the run has returned; a tier1 source failed while its tier1
\* sibling and a tier2 source completed.
C3_Witness ==
  /\ phase = "returned"
  /\ \E s, u, t \in Sources :
       /\ s # u /\ TIER(s) = "tier1" /\ TIER(u) = "tier1" /\ TIER(t) = "tier2"
       /\ pc[s] = "errored" /\ pc[u] = "completed" /\ pc[t] = "completed"

\* C4: when the construction of a source's adapter raised, the returned
\* report holds an errored result for that source (and one result for every
\* source of the run whose adapter was built).
C4_BuildFailureReported ==
  phase = "returned" =>
    /\ \A s \in build_failed :
          \E i \in 1..Len(results) :
             results[i].source = s /\ results[i].error # None
    /\ \A u \in built : CountFor(u) = 1

\* C5: a source has a result only if it is registered, requested (or all
\* sources were requested), not disabled, and in tier1/optional or covered by
\* the acknowledgment flag; a requested (registered, enabled) tier2 or tier3
\* source has zero results without the flag and exactly one with it; unknown
\* identifiers have no result and the known ones still get theirs.
Requested(sid) ==
  args.source_ids = None \/ sid \in Range(args.source_ids[1])
EnabledInConfig(sid) ==
  Get(Get(config_sources, sid, EmptyDict), "enabled", TRUE)
C5_SelectionGate ==
  phase = "returned" =>
    /\ \A i \in 1..Len(results) :
          LET s == results[i].source IN
            /\ s \in Sources
            /\ Requested(s)
            /\ EnabledInConfig(s)
            /\ TIER(s) \in {"tier1", "optional"} \/ args.tos_aware
    /\ \A s \in Sources :
          (Requested(s) /\ EnabledInConfig(s)) =>
            IF TIER(s) \in {"tier2", "tier3"} /\ ~ args.tos_aware
            THEN CountFor(s) = 0
            ELSE CountFor(s) = 1

\* C6: in a run that is not a dry run, at the step in which a source's
\* validate_config() returns, scrape() is invoked iff force is set or
\* is_fresh(path, freshness_hours) is false; when it is not invoked the
\* result is skipped with item count 0, write_output is never called for the
\* source, and only a pipeline's write step changes its file.
C6_StepOK(s) ==
  (/\ ~ args.dry_run
   /\ pc[s] = "validating"
   /\ pc'[s] \in {"fresh_skip", "dry_run_skip", "scraping"}) =>
     /\ (scrape_calls'[s] = scrape_calls[s] + 1) <=>
          (args.force \/
           ~ is_fresh(fs, PathOf(s), ConfigOf(s).freshness_hours, now))
     /\ scrape_calls'[s] = scrape_calls[s] =>
          /\ pc'[s] \in Terminal
          /\ result'[s].skipped
          /\ result'[s].items_scraped = 0
          /\ result'[s].error = None
          /\ fs' = fs
C6_SkippedStays(s) ==
  (~ args.dry_run /\ pc[s] \in Terminal /\ scrape_calls[s] = 0
     /\ validate_calls[s] = 1 /\ pc[s] # "errored") =>
     /\ write_calls[s] = 0
     /\ result[s].skipped /\ result[s].items_scraped = 0
     /\ (phase = "returned" => CountFor(s) = 1 /\ ResultOf(s) = result[s])
C6_FreshnessGate ==
  /\ [](\A s \in Sources : C6_SkippedStays(s))
  /\ [][ \A s \in Sources :
           /\ C6_StepOK(s)
           /\ (fs'[PathOf(s)] # fs[PathOf(s)]) => pc[s] = "writing" ]_vars

\* C6 witness: without force and without dry-run, a source whose file is
\* fresh has been skipped; its file holds records of an earlier run.
C6_Witness ==
  /\ ~ args.force /\ ~ args.dry_run
  /\ pc["hacker_news"] = "fresh_skip"
  /\ fs[PathOf("hacker_news")] # None
  /\ fs[PathOf("hacker_news")][1].content # << >>

\* C7: during a dry run no step invokes scrape() or write_output or changes
\* any output file, whatever force and the files' freshness; when the run
\* has returned, validate_config() has been invoked once for every source
\* whose scraper was built, a source with a missing credential is reported
\* errored and a source whose validation passed is reported skipped.
C7_Returned ==
  (args.dry_run /\ phase = "returned") =>
    \A s \in built :
       /\ validate_calls[s] = 1
       /\ CountFor(s) = 1
       /\ MissingKeys(s, env) # {} =>
            ResultOf(s).error # None /\ ~ ResultOf(s).skipped
       /\ (MissingKeys(s, env) = {} /\ pc[s] # "errored") =>
            /\ ResultOf(s).skipped
            /\ ResultOf(s).error = None
            /\ ResultOf(s).items_scraped = 0
C7_DryRun ==
  /\ [](C7_Returned)
  /\ []((args.dry_run /\ phase # "idle") =>
          \A s \in Sources : scrape_calls[s] = 0 /\ write_calls[s] = 0)
  /\ [][ (args.dry_run /\ InRun) => fs' = fs ]_vars

\* C7 witness: a forced dry run has returned; a source with a missing
\* credential is errored, another one is skipped although it has no fresh
\* file.
C7_Witness ==
  /\ args.dry_run /\ args.force /\ phase = "returned"
  /\ \E s, u \in built :
       /\ MissingKeys(s, env) # {} /\ pc[s] = "errored"
       /\ pc[u] = "dry_run_skip" /\ fs[PathOf(u)] = None

\* C8: the sequence handed to write_output holds exactly one record per
\* distinct id of the yielded sequence, namely the first one yielded with
\* that id, in the order of those first occurrences; N records sharing one
\* id give 1, N records with distinct ids give N; the item count of a
\* completed result is the number of records written.
FirstIndex(its, id) == CHOOSE i \in 1..Len(its) :
  its[i].id = id /\ \A j \in 1..(i - 1) : its[j].id # id
IdsOf(its) == {its[i].id : i \in 1..Len(its)}
IsFirstOccurrences(u, its) ==
  /\ IdsOf(u) = IdsOf(its)
  /\ Len(u) = Cardinality(IdsOf(its))
  /\ \A k \in 1..Len(u) : u[k] = its[FirstIndex(its, u[k].id)]
  /\ \A k, l \in 1..Len(u) :
        k < l => FirstIndex(its, u[k].id) < FirstIndex(its, u[l].id)
C8_Dedup ==
  \A s \in Sources :
     /\ pc[s] = "writing" =>
          /\ IsFirstOccurrences(unique[s], items[s])
          /\ (items[s] # << >> /\ Cardinality(IdsOf(items[s])) = 1) =>
                Len(unique[s]) = 1
          /\ Cardinality(IdsOf(items[s])) = Len(items[s]) => unique[s] = items[s]
     /\ pc[s] = "completed" =>
          /\ fs[PathOf(s)] # None
          /\ result[s].items_scraped = Len(fs[PathOf(s)][1].content)

\* C8 witness: three records were yielded, the first and the last with the
\* same id and different bodies, and two are handed to write_output.
C8_Witness ==
  \E s \in Sources :
     /\ pc[s] = "writing"
     /\ Len(items[s]) = 3
     /\ items[s][1].id = items[s][3].id
     /\ items[s][1] # items[s][3]
     /\ items[s][2].id # items[s][1].id
     /\ Len(unique[s]) = 2

\* C9: in a returned report no result is both skipped and errored, and a
\* result with a positive item count is neither skipped nor errored.
C9_ResultShape ==
  phase = "returned" =>
    \A i \in 1..Len(results) :
       /\ ~ (results[i].skipped /\ results[i].error # None)
       /\ results[i].items_scraped > 0 =>
            (~ results[i].skipped /\ results[i].error = None)

\* C9 witness: a returned report with a skipped result, a completed result
\* that counts records, and an errored result of a source whose write failed.
C9_Witness ==
  /\ phase = "returned"
  /\ \E i, j, k \in 1..Len(results) :
       /\ results[i].error # None
       /\ write_calls[results[i].source] = 1
       /\ results[j].skipped
       /\ results[k].items_scraped > 0

\* C10: within a run a source's state changes only along pending ->
\* validating -> (errored | fresh-skip | dry-run-skip | scraping) ->
\* (errored | completed); a terminal state is left only when the next run
\* starts; a source with missing credentials ends errored whatever its
\* file's freshness; a file changes only in the write step that follows the
\* return of scrape(); validate_config() and scrape() are invoked at most
\* once per source and run.
PipelineState(p) == IF p = "writing" THEN "scraping" ELSE p
AllowedTransitions ==
  { << "pending", "validating" >>,
    << "validating", "errored" >>, << "validating", "fresh_skip" >>,
    << "validating", "dry_run_skip" >>, << "validating", "scraping" >>,
    << "scraping", "errored" >>, << "scraping", "completed" >> }
C10_Inv ==
  \A s \in Sources :
     /\ validate_calls[s] <= 1
     /\ scrape_calls[s] <= 1
     /\ (pc[s] \in Terminal /\ MissingKeys(s, env) # {}) => pc[s] = "errored"
     /\ pc[s] \in {"fresh_skip", "dry_run_skip", "scraping", "writing",
                   "completed"} =>
          (validate_calls[s] = 1 /\ MissingKeys(s, env) = {})
     /\ write_calls[s] > 0 =>
          (scrape_calls[s] = 1 /\ pc[s] \in {"writing", "completed", "errored"})
C10_Step ==
  \A s \in Sources :
     /\ PipelineState(pc'[s]) # PipelineState(pc[s]) =>
          \/ << PipelineState(pc[s]), PipelineState(pc'[s]) >> \in AllowedTransitions
          \/ /\ ~ InRun /\ phase' = "build"
             /\ pc'[s] = "pending"
     /\ fs'[PathOf(s)] # fs[PathOf(s)] =>
          (pc[s] = "writing" /\ scrape_calls[s] = 1)
C10_StateMachine == [](C10_Inv) /\ [][C10_Step]_vars

\* C10 witness: without force, a source whose file is fresh and whose
\* credential is missing has ended errored.
C10_Witness ==
  /\ ~ args.force
  /\ MissingKeys("twitter", env) # {}
  /\ is_fresh(fs, PathOf("twitter"), ConfigOf("twitter").freshness_hours, now)
  /\ pc["twitter"] = "errored"

\* C13: the limiter admits at most max_calls calls in any trailing window:
\* for every recorded call, at time t, the number of calls recorded with a
\* timestamp in (t - window_seconds, t] is at most max_calls.
C13_WindowLimit ==
  \A i \in 1..Len(calls) :
     Cardinality({j \in 1..Len(calls) :
                    /\ calls[j] > calls[i] - window_seconds
                    /\ calls[j] <= calls[i]}) <= max_calls

\* C11: every run_scrapers call returns, and the returned report holds
\* exactly one result for each source whose pipeline was started (whose
\* validate_config() was called) and no other result.
Started == {s \in Sources : validate_calls[s] >= 1}
C11_Complete ==
  phase = "returned" =>
    /\ \A s \in Sources : CountFor(s) = IF s \in Started THEN 1 ELSE 0
    /\ Len(results) = Cardinality(Started)
C11_ReturnsCompleteReport ==
  /\ [](C11_Complete)
  /\ (phase \in {"build", "run", "collect"}) ~> (phase = "returned")

\* C11 witness: a report of four results is returned although one pipeline
\* raised in validate_config() or scrape() and one source was not built.
C11_Witness ==
  /\ phase = "returned"
  /\ Len(results) >= 3
  /\ build_failed # {}
  /\ \E s \in Started : pc[s] = "errored" /\ write_calls[s] = 0

\* C12: the step in which a source completes normally leaves in the
\* source's file exactly the deduplicated records of this run (one record
\* per distinct id yielded, the first one, in order), whatever the file held
\* before, also when it held more records or the run yields none; the file
\* keeps that content while the source stays completed.
SameRecord(written, item) ==
  /\ written.id = item.id
  /\ written.source = item.source
  /\ written.body = item.body
C12_Step(s) ==
  /\ (pc[s] = "writing" /\ pc'[s] = "completed") =>
        /\ IsFirstOccurrences(unique[s], items[s])
        /\ fs'[PathOf(s)] # None
        /\ LET content == fs'[PathOf(s)][1].content IN
             /\ Len(content) = Len(unique[s])
             /\ \A i \in 1..Len(content) : SameRecord(content[i], unique[s][i])
  /\ (pc[s] = "completed" /\ pc'[s] = "completed") =>
        fs'[PathOf(s)] = fs[PathOf(s)]
C12_FullOverwrite == [][ \A s \in Sources : C12_Step(s) ]_vars

\* C12 witness: a source whose file held two records of an earlier run has
\* completed without yielding a record, and its file holds an empty list.
C12_Witness ==
  \E s \in OldFiles :
     /\ pc[s] = "completed"
     /\ result[s].items_scraped = 0
     /\ fs[PathOf(s)] # None
     /\ fs[PathOf(s)][1].content = << >>

\* C14: discovery runs at most once per process: once a first call of
\* get_all(), get() or list_sources() has been made, no later call imports a
\* module, registers a class or changes the registry; get_all() returns the
\* same mapping every time; get(id) is the class get_all() maps id to and
\* absent for an unknown id; every key is the SOURCE_ID of its class.
C14_Inv ==
  /\ api_calls > 0 => LOADED
  /\ import_calls <= Len(RegistryKeys)
  /\ registrations <= Len(RegistryKeys)
  /\ \A k \in DOMAIN REGISTRY : REGISTRY[k].SOURCE_ID = k
  /\ last.fn = "get_all" =>
        /\ last.out = REGISTRY
        /\ prev.fn = "get_all" => prev.out = last.out
  /\ last.fn = "get" =>
        /\ last.in[1] \in DOMAIN REGISTRY =>
              last.out = Some(REGISTRY[last.in[1]])
        /\ last.in[1] \notin DOMAIN REGISTRY => last.out = None
        /\ prev.fn = "get_all" =>
              /\ DOMAIN prev.out = DOMAIN REGISTRY
              /\ last.in[1] \in DOMAIN prev.out =>
                    last.out = Some(prev.out[last.in[1]])
C14_Step ==
  api_calls > 0 =>
    /\ import_calls' = import_calls
    /\ registrations' = registrations
    /\ REGISTRY' = REGISTRY
    /\ LOADED' = LOADED
C14_DiscoveryOnce == [](C14_Inv) /\ [][C14_Step]_vars

\* C14 witness: after get_all() and two later calls the modules have been
\* imported once; the last call, get() of an adapter whose module failed to
\* import, returned None.
C14_Witness ==
  /\ api_calls >= 3
  /\ import_calls = Len(RegistryKeys)
  /\ prev.fn = "get_all" /\ DOMAIN prev.out # {}
  /\ last.fn = "get" /\ last.in[1] \in Sources /\ last.out = None

\* two successive calls of make_feedback_id
BothIds == prev.fn = "make_feedback_id" /\ last.fn = "make_feedback_id"
\* the calls differ in argument k and in no other argument
DifferOnlyIn(k) ==
  /\ prev.in[k] # last.in[k]
  /\ \A j \in {1, 2, 3, 4} \ {k} : prev.in[j] = last.in[j]
Absent(o) == o = None \/ o[1] = << >>
C15_Url ==
  (DifferOnlyIn(2) /\ ~ Absent(prev.in[2]) /\ ~ Absent(last.in[2])) =>
     prev.out # last.out
C15_BodyAlone ==
  (/\ Absent(prev.in[2]) /\ Absent(prev.in[3])
   /\ Absent(last.in[2]) /\ Absent(last.in[3])
   /\ prev.in[1] = last.in[1] /\ prev.in[4] = last.in[4]) =>
     prev.out = last.out

\* C15 as stated: equal arguments give equal ids; two calls with non-empty
\* urls that differ only in url give different ids; with url absent, two
\* calls that differ only in author give different ids; with url and author
\* both absent, calls with the same source and body give the same id.
C15_Precedence ==
  BothIds =>
    /\ prev.in = last.in => prev.out = last.out
    /\ C15_Url
    /\ (DifferOnlyIn(3) /\ Absent(last.in[2])) => prev.out # last.out
    /\ C15_BodyAlone

\* C15 as amended: the author clause holds for two non-empty authors.
C15_PrecedenceNonEmptyAuthors ==
  BothIds =>
    /\ prev.in = last.in => prev.out = last.out
    /\ C15_Url
    /\ (/\ DifferOnlyIn(3) /\ Absent(last.in[2])
        /\ ~ Absent(prev.in[3]) /\ ~ Absent(last.in[3])) =>
          prev.out # last.out
    /\ C15_BodyAlone

\* C15 witness: two calls without url, same source and the same long body,
\* authors "a" and "b", with different ids.
C15_Witness ==
  /\ BothIds
  /\ DifferOnlyIn(3)
  /\ last.in[2] = None
  /\ prev.in[3] = Some(<< "a" >>) /\ last.in[3] = Some(<< "b" >>)
  /\ Len(last.in[4]) > AuthorBodyChars
  /\ prev.out # last.out

\* C20: the rating a FeedbackItem stores is None for the input None, and
\* otherwise the input clamped to [0.0, 5.0]: 5.0 for an input above 5.0
\* (10.0 gives 5.0), 0.0 for an input below 0.0 (-1.0 gives 0.0), the input
\* itself when it is in range.
C20_RatingClamped ==
  last.fn = "FeedbackItem" =>
    LET v == last.in[1]
        stored == last.out
    IN /\ v = None => stored = None
       /\ v # None =>
            /\ stored # None
            /\ stored[1] >= 0 /\ stored[1] <= 5
            /\ v[1] > 5 => stored[1] = 5
            /\ v[1] < 0 => stored[1] = 0
            /\ (v[1] >= 0 /\ v[1] <= 5) => stored[1] = v[1]
            /\ v[1] = 10 => stored[1] = 5
            /\ v[1] = 0 - 1 => stored[1] = 0

\* C20 witness: a record built with rating -1.0 stores 0.0 and the next one,
\* built with 10.0, stores 5.0.
C20_Witness ==
  /\ prev.fn = "FeedbackItem" /\ last.fn = "FeedbackItem"
  /\ prev.in[1] = Some(0 - 1) /\ prev.out = Some(0)
  /\ last.in[1] = Some(10) /\ last.out = Some(5)

\* C17: from_raw resolves max_items, freshness_hours and rate_limit_delay
\* each by its own chain: the adapter-specific parameter when the key is
\* present, else the global default when present, else 200, 24.0, 1.0; two
\* calls that agree on a field's own two keys resolve that field alike,
\* whatever the other keys are.
Resolved(sp, g, field, default_key, fallback) ==
  IF field \in DOMAIN sp THEN sp[field]
  ELSE IF default_key \in DOMAIN g THEN g[default_key]
  ELSE fallback
SameKey(d, e, k) ==
  (k \in DOMAIN d <=> k \in DOMAIN e) /\ (k \in DOMAIN d => d[k] = e[k])
C17_Field(field, default_key, fallback) ==
  /\ last.out[field] = Resolved(last.in[1], last.in[2], field, default_key, fallback)
  /\ (/\ prev.fn = "from_raw"
      /\ SameKey(prev.in[1], last.in[1], field)
      /\ SameKey(prev.in[2], last.in[2], default_key)) =>
        prev.out[field] = last.out[field]
C17_DefaultChain ==
  last.fn = "from_raw" =>
    /\ C17_Field("max_items", "default_max_items", 200)
    /\ C17_Field("freshness_hours", "default_freshness_hours", 24)
    /\ C17_Field("rate_limit_delay", "default_rate_limit_delay", 1)

\* C17 witness: one call resolves the three fields at three different
\* levels, the call before it resolved freshness_hours alike with every other
\* key different.
C17_Witness ==
  /\ last.fn = "from_raw" /\ prev.fn = "from_raw"
  /\ DOMAIN last.in[1] = {"freshness_hours"}
  /\ DOMAIN last.in[2] = {"default_max_items", "default_freshness_hours"}
  /\ last.out.max_items = 7
  /\ last.out.freshness_hours = 2
  /\ last.out.rate_limit_delay = 1
  /\ DOMAIN prev.in[1] = {"freshness_hours", "max_items", "rate_limit_delay"}
  /\ DOMAIN prev.in[2] = {"default_rate_limit_delay"}
  /\ prev.out.freshness_hours = 2

\* C18: validate_config() raises ConfigError iff some name of REQUIRES_KEYS
\* is missing from the configuration's environment snapshot or maps to an
\* empty value there, and returns normally otherwise; either way the
\* scraper's configuration and os.environ are as before the call.
C18_Inv ==
  last.fn = "validate_config" =>
    LET sid == last.in[1]
        config == last.in[2]
    IN /\ (last.out.raised = "ConfigError") <=>
             \E k \in REQUIRES_KEYS(sid) :
                k \notin DOMAIN config.env \/ config.env[k] = ""
       /\ last.out.raised \in {"ConfigError", "none"}
       /\ last.out.config = config
C18_ValidateConfig == [](C18_Inv) /\ [][env' = env]_vars

\* C18 witness: a reddit scraper whose client secret is set to the empty
\* string raised ConfigError, after one with both credentials set returned.
C18_Witness ==
  /\ last.fn = "validate_config" /\ prev.fn = "validate_config"
  /\ last.in[1] = "reddit" /\ prev.in[1] = "reddit"
  /\ DOMAIN last.in[2].env = {"REDDIT_CLIENT_ID", "REDDIT_CLIENT_SECRET"}
  /\ last.in[2].env["REDDIT_CLIENT_ID"] = "secret"
  /\ last.in[2].env["REDDIT_CLIENT_SECRET"] = ""
  /\ last.out.raised = "ConfigError"
  /\ prev.out.raised = "none"

\* C16: is_fresh(path, freshness_hours) is true iff a file exists at path
\* and the clock reading minus its modification time is strictly less than
\* freshness_hours * 3600 seconds: false for a missing file, false for a
\* file modified 25 hours ago with freshness_hours = 24, false at an age
\* equal to the window.
C16_IsFresh ==
  last.fn = "is_fresh" =>
    LET file == fs[last.in[1]]
        hours == last.in[2]
    IN /\ last.out <=> (file # None /\ now - file[1].mtime < hours * 3600)
       /\ file = None => ~ last.out
       /\ (file # None /\ now - file[1].mtime = 25 * 3600 /\ hours = 24) =>
             ~ last.out
       /\ (file # None /\ now - file[1].mtime = hours * 3600) => ~ last.out

\* C16 witness: with a window of 24 hours, a file exactly 24 hours old was
\* found not fresh right after a file one second younger was found fresh.
C16_Witness ==
  /\ prev.fn = "is_fresh" /\ last.fn = "is_fresh"
  /\ prev.in[2] = 24 /\ last.in[2] = 24
  /\ fs[prev.in[1]] # None /\ fs[last.in[1]] # None
  /\ now - fs[prev.in[1]][1].mtime = 24 * 3600 - 1
  /\ now - fs[last.in[1]][1].mtime = 24 * 3600
  /\ prev.out /\ ~ last.out

\* C19: after write_output the file holds one record per item, in order;
\* with strip_raw no record has a raw field, whether or not the item's raw
\* was populated; without it every record carries the item's raw value; and
\* a second write of the same sequence to the same path leaves the content
\* the first one left.
C19_StripRaw ==
  last.fn = "write_output" =>
    LET its == last.in[1]
        strip == last.in[3]
        data == fs[last.out.path][1].content
    IN /\ data = last.out.data
       /\ Len(data) = Len(its)
       /\ \A i \in 1..Len(its) :
             /\ data[i].id = its[i].id
             /\ strip => "raw" \notin DOMAIN data[i]
             /\ ~ strip => ("raw" \in DOMAIN data[i] /\ data[i].raw = its[i].raw)
       /\ (prev.fn = "write_output" /\ prev.in = last.in) =>
             prev.out.data = last.out.data

\* C19 witness: the same two records, one with a populated raw field, were
\* written twice with strip_raw set.
C19_Witness ==
  /\ prev.fn = "write_output" /\ last.fn = "write_output"
  /\ prev.in = last.in
  /\ last.in[3]
  /\ Len(last.in[1]) = 2
  /\ \E i \in 1..2 : last.in[1][i].raw # None
  /\ \E i \in 1..2 : last.in[1][i].raw = None
  /\ Len(fs[last.out.path][1].content) = 2

\* C28: when run_scrapers is given an explicit list of source identifiers
\* (anything but None), every result of the report is for an identifier of
\* that list; for the empty list the report is empty and no adapter is
\* built or run.
C28_ExplicitList ==
  args.source_ids # None =>
     /\ \A i \in 1..Len(results) : results[i].source \in Range(args.source_ids[1])
     /\ args.source_ids[1] = << >> =>
          /\ results = << >>
          /\ built = {}
          /\ \A sid \in Sources : validate_calls[sid] = 0

\* C22: no two pipelines that execute concurrently in a run write the same
\* output path: the scrapers built for a tier have pairwise distinct source
\* identifiers, also when the requested list names an identifier twice, a
\* source is attempted at most once in a run, and distinct identifiers have
\* distinct files {output_dir}/{product_slug}/{source_id}.json.
C22_DistinctPaths ==
  /\ \A i \in 1..Len(scraper_map) : \A j \in 1..Len(scraper_map) :
        i # j => /\ scraper_map[i] # scraper_map[j]
                 /\ PathOf(scraper_map[i]) # PathOf(scraper_map[j])
  /\ \A s \in Sources : \A t \in Sources :
        (s # t /\ pc[s] \in Active /\ pc[t] \in Active) => PathOf(s) # PathOf(t)
  /\ \A sid \in Sources : validate_calls[sid] <= 1 /\ write_calls[sid] <= 1

\* two pipelines of a run that was asked for "reddit" twice are inside
\* write_output at the same time
C22_Witness ==
  /\ args.source_ids # None
  /\ \E i \in 1..Len(args.source_ids[1]) : \E j \in 1..Len(args.source_ids[1]) :
        i # j /\ args.source_ids[1][i] = "reddit" /\ args.source_ids[1][j] = "reddit"
  /\ pc["reddit"] = "writing"
  /\ pc["hacker_news"] = "writing"

\* the position of x in seq
IndexOf(seq, x) == CHOOSE i \in 1..Len(seq) : seq[i] = x

\* C26: within a parallel tier the results are appended to the report in
\* the order in which the sources' pipelines finished: whenever A's pipeline
\* finished before B's, A's result precedes B's in the list.
C26_CompletionOrder ==
  (phase = "collect" /\ max_workers # 1) =>
     \A i \in 1..Len(results) : \A j \in 1..Len(results) :
        ( /\ results[i].source \in Range(finish_order)
          /\ results[j].source \in Range(finish_order)
          /\ IndexOf(finish_order, results[i].source)
               < IndexOf(finish_order, results[j].source) )
        => i < j

\* C27: every result produced by a pipeline that raised is presented as
\* errored: whatever the exception's message, the result's status label is
\* the error label and its status icon the error icon.
C27_ErrorPresented ==
  \A i \in 1..Len(results) :
     results[i].error # None =>
        /\ status_label(results[i]).text = "Error: "
        /\ status_icon(results[i]) = IconError

\* C29: when a source's run ends errored because validate_config() or
\* scrape() raised (write_output was not reached), its output file is
\* exactly what the run found, content and modification time, and is_fresh
\* answers for it as it would for the file the run found.
C29_ErrorLeavesFile ==
  \A sid \in Sources :
     (phase # "idle" /\ pc[sid] = "errored" /\ write_calls[sid] = 0) =>
        /\ fs[PathOf(sid)] = run_log.files[PathOf(sid)]
        /\ \A h \in 0..MaxHours :
              is_fresh(fs, PathOf(sid), h, now)
                = is_fresh(run_log.files, PathOf(sid), h, now)

\* scrape() raised in a run that found a file with records of an earlier
\* run
C29_Witness ==
  /\ phase # "idle"
  /\ pc["hacker_news"] = "errored"
  /\ scrape_calls["hacker_news"] = 1
  /\ write_calls["hacker_news"] = 0
  /\ run_log.files[PathOf("hacker_news")] # None
  /\ run_log.files[PathOf("hacker_news")][1].content # << >>

\* the source completed in the run before this one, this run is made
\* without force, and the source's freshness window is positive
C30_Case(sid) ==
  /\ phase # "idle"
  /\ sid \in run_log.prev_completed
  /\ ~ args.force
  /\ ConfigOf(sid).freshness_hours > 0
  /\ MissingKeys(sid, ConfigOf(sid).env) = {}

\* the file the earlier run's completion left
C30_File(sid) == run_log.files[PathOf(sid)]

\* C30 (as stated): after a source completed normally in one run, a
\* following run without force that starts within the source's freshness
\* window and finds its configuration valid reports the source as skipped,
\* does not invoke scrape(), and leaves the output file unchanged.
C30_SkipWhenRunStartsFresh ==
  \A sid \in Sources :
     ( /\ C30_Case(sid)
       /\ run_log.started_at - C30_File(sid)[1].mtime
            < ConfigOf(sid).freshness_hours * 3600 )
     => /\ scrape_calls[sid] = 0
        /\ fs[PathOf(sid)] = C30_File(sid)
        /\ (pc[sid] \in Terminal /\ validate_calls[sid] = 1
              /\ ~ (pc[sid] = "errored"))
           => (pc[sid] = "fresh_skip" /\ result[sid] = Skipped(sid))

\* the step in which validate_config() returns and the freshness check is
\* made, at a time inside the window of the file the earlier run left
C30_Step(sid) ==
  ( /\ C30_Case(sid)
    /\ pc[sid] = "validating"
    /\ pc'[sid] \notin {"validating", "errored"}
    /\ now - C30_File(sid)[1].mtime < ConfigOf(sid).freshness_hours * 3600 )
  => /\ pc'[sid] = "fresh_skip"
     /\ result'[sid] = Skipped(sid)
     /\ scrape_calls'[sid] = 0
     /\ fs' = fs
     /\ fs[PathOf(sid)] = C30_File(sid)

\* once skipped as fresh, the source stays so for the rest of the run
C30_Inv ==
  \A sid \in Sources :
     (C30_Case(sid) /\ pc[sid] = "fresh_skip") =>
        /\ scrape_calls[sid] = 0
        /\ fs[PathOf(sid)] = C30_File(sid)
        /\ result[sid] = Skipped(sid)

\* C30 (amended): after a source completed normally in one run, a following
\* run without force whose freshness check for that source (made when its
\* validate_config() returns) takes place within the source's freshness
\* window reports the source as skipped, does not invoke scrape(), and
\* leaves the output file unchanged.
C30_SkipWhenCheckedFresh ==
  [](C30_Inv) /\ [][\A sid \in Sources : C30_Step(sid)]_vars

\* a second run has skipped a source that completed with zero records in
\* the first run
C30_Witness ==
  /\ C30_Case("hacker_news")
  /\ pc["hacker_news"] = "fresh_skip"
  /\ C30_File("hacker_news") # None
  /\ C30_File("hacker_news")[1].content = << >>
  /\ results # << >>

\* at most one thread is between reading the deque and appending to it,
\* and it is the one that holds the lock
C23_Serialized ==
  /\ Cardinality({t \in Threads : tpc[t] \in {"sleeping", "recording"}}) <= 1
  /\ \A t \in Threads : tpc[t] \in {"sleeping", "recording"} <=> lock = Some(t)

C23_NoRaise == \A t \in Threads : tpc[t] # "raised"

\* C23: when several threads call wait() on one SlidingWindowLimiter with
\* max_calls >= 1, the calls are serialized by the limiter's lock (at most
\* one thread is between reading the timestamp queue and appending to it,
\* also while it sleeps), no call raises, and under fair scheduling every
\* call eventually returns.
C23_ConcurrentWait ==
  /\ [](max_calls >= 1 => (C23_Serialized /\ C23_NoRaise))
  /\ \A t \in Threads :
        (max_calls >= 1 /\ tpc[t] = "waiting") ~> (tpc[t] = "idle")

\* one thread sleeps inside wait() holding the lock while the other is
\* blocked at the lock
C23_Witness ==
  /\ max_calls >= 1
  /\ tpc["t1"] = "sleeping"
  /\ lock = Some("t1")
  /\ tpc["t2"] = "waiting"

\* C21: while a parallel tier runs, workers share no mutable state: a
\* variable that one worker writes during its pipeline, module-level state
\* reached through the HTTP session factory included, is read or written
\* by no other worker.
C21_NoSharedMutableState ==
  \A a \in ua_access :
     a[2] = "write" => \A b \in ua_access : b[1] = a[1]

\* C24: HackerNewsScraper.scrape() never propagates an exception to its
\* caller, whatever the endpoint returns: the iteration always ends
\* normally.
C24_NeverPropagates == hn_pc # "raised"

\* C25: for every sequence of endpoint responses scrape() yields at most
\* max_items records, and no request is issued after a request that failed,
\* a page that returned no hits, a page whose index reached nbPages, or the
\* yield of the max_items-th record.
C25_Bounded ==
  /\ Len(yielded) <= hn_max_items
  /\ hn_log # << >> => hn_max_items > 0
  /\ \A i \in 1..Len(hn_log) :
        /\ hn_log[i].page = i - 1
        /\ hn_log[i].yielded_after <= hn_max_items
        /\ i < Len(hn_log) =>
             /\ hn_log[i].outcome = "ok"
             /\ hn_log[i].page + 1 < hn_log[i].nb_pages
             /\ hn_log[i].yielded_after < hn_max_items

\* a third request was made, and pagination then ended with max_items
\* records yielded
C25_Witness ==
  /\ hn_pc = "done"
  /\ Len(hn_log) = 3
  /\ hn_max_items >= 2
  /\ Len(yielded) = hn_max_items

====
